---- MODULE Spec2Model ----
(***************************************************************************)
(* A model of rlox, a tree-walking interpreter for a Lox dialect.          *)
(*                                                                         *)
(* run_source_code (src/src/lib.rs) pipes a source string through the      *)
(* lexer, the parser, the resolver and the evaluator.  The lexer takes one *)
(* iteration of tokenize's loop per step and the parser one iteration of   *)
(* parse's loop per step; the grammar functions and the resolver are       *)
(* recursive functions of their input and are modelled as operators.       *)
(* The evaluator is modelled as a small-step machine: `ctl` is what is     *)
(* being evaluated or returned, `kont` is the stack of Rust activations    *)
(* that wait for it, `envs` is the heap of reference-counted environment   *)
(* frames and `environment` is Interpreter.environment.                    *)
(*                                                                         *)
(* Numbers: an f64 is modelled as an exact rational [num, den] (den > 0,   *)
(* lowest terms), with den = 0 for the IEEE specials (num = 1: inf,        *)
(* num = -1: -inf, num = 0: NaN).  Rounding and signed zero are not        *)
(* modelled.                                                               *)
(***************************************************************************)
EXTENDS Integers, Sequences, FiniteSets, TLC

VARIABLES
  source,       \* run_source_code's source_code argument
  stage,        \* the position inside run_source_code
  ran,          \* history: the stages that have run, in order
  lexer,        \* the Lexer's position, line and column
  tokens,       \* the tokens Lexer::tokenize has collected
  parser,       \* the Parser: tokens, position, errors, next variable id
  stmts,        \* the statements Parser::parse has collected
  bindings,     \* Resolver.bindings, as handed to the Interpreter
  envs,         \* the heap of Environment frames (index = Rc pointer)
  functions,    \* the heap of LoxFunction descriptors (index = Rc pointer)
  environment,  \* Interpreter.environment
  out,          \* the output sink, one entry per writeln!
  ctl,          \* evaluator control: what is evaluated or returned now
  kont,         \* evaluator continuation: the waiting Rust activations
  steps,        \* number of evaluator steps taken (bounded by MaxSteps)
  reads,        \* history: [fn, id, frame] for every variable read
  result        \* the value returned by run_source_code

vars == <<source, stage, ran, lexer, tokens, parser, stmts, bindings, envs,
          functions, environment, out, ctl, kont, steps, reads, result>>

(***************************************************************************)
(* Bounds of the model.                                                    *)
(***************************************************************************)
MaxSteps == 400

(***************************************************************************)
(* Option<T>: None is the empty sequence, Some(x) is <<x>>.                *)
(***************************************************************************)
None == <<>>
Some(x) == <<x>>
IsSome(o) == Len(o) > 0
Unwrap(o) == o[1]

Last(s) == s[Len(s)]
Front(s) == SubSeq(s, 1, Len(s) - 1)

(***************************************************************************)
(* f64 arithmetic on exact rationals.                                      *)
(***************************************************************************)
Abs(i) == IF i < 0 THEN -i ELSE i

RECURSIVE Gcd(_, _)
Gcd(a, b) == IF b = 0 THEN a ELSE Gcd(b, a % b)

Rat(n, d) ==
  IF d = 0 THEN [num |-> IF n > 0 THEN 1 ELSE IF n < 0 THEN -1 ELSE 0, den |-> 0]
  ELSE LET s == IF d < 0 THEN -1 ELSE 1
           g == Gcd(Abs(n), Abs(d))
       IN [num |-> (s * n) \div g, den |-> (s * d) \div g]

IsNaN(a) == a.den = 0 /\ a.num = 0
IsInf(a) == a.den = 0 /\ a.num # 0
Sign(a) == IF a.num > 0 THEN 1 ELSE IF a.num < 0 THEN -1 ELSE 0

F64Neg(a) == [num |-> -a.num, den |-> a.den]

F64Add(a, b) ==
  IF IsNaN(a) \/ IsNaN(b) THEN Rat(0, 0)
  ELSE IF IsInf(a) /\ IsInf(b) THEN (IF a.num = b.num THEN a ELSE Rat(0, 0))
  ELSE IF IsInf(a) THEN a
  ELSE IF IsInf(b) THEN b
  ELSE Rat(a.num * b.den + b.num * a.den, a.den * b.den)

F64Sub(a, b) == F64Add(a, F64Neg(b))

F64Mul(a, b) ==
  IF IsNaN(a) \/ IsNaN(b) THEN Rat(0, 0)
  ELSE IF IsInf(a) \/ IsInf(b) THEN Rat(Sign(a) * Sign(b), 0)
  ELSE Rat(a.num * b.num, a.den * b.den)

F64Div(a, b) ==
  IF IsNaN(a) \/ IsNaN(b) THEN Rat(0, 0)
  ELSE IF IsInf(a) THEN (IF IsInf(b) THEN Rat(0, 0)
                         ELSE Rat(Sign(a) * (IF b.num < 0 THEN -1 ELSE 1), 0))
  ELSE IF IsInf(b) THEN Rat(0, 1)
  ELSE IF b.num = 0 THEN Rat(Sign(a), 0)
  ELSE Rat(a.num * b.den, a.den * b.num)

\* a < b on f64: false whenever an operand is NaN
F64Lt(a, b) ==
  IF IsNaN(a) \/ IsNaN(b) THEN FALSE
  ELSE IF IsInf(a) \/ IsInf(b)
       THEN (IF IsInf(a) /\ IsInf(b) THEN a.num < b.num
             ELSE IF IsInf(a) THEN a.num < 0 ELSE b.num > 0)
  ELSE a.num * b.den < b.num * a.den

F64Eq(a, b) == ~IsNaN(a) /\ ~IsNaN(b) /\ a = b

(***************************************************************************)
(* Value (src/src/parser/value.rs).                                        *)
(***************************************************************************)
Number(n) == [t |-> "Number", n |-> n]
Str(s) == [t |-> "Str", s |-> s]
Bool(b) == [t |-> "Bool", b |-> b]
Nil == [t |-> "Nil"]
Callable(fn) == [t |-> "Callable", fn |-> fn]

\* is_truthy with every number truthy
is_truthy_buggy(v) ==
  CASE v.t = "Bool" -> v.b
    [] v.t = "Number" -> TRUE
    [] v.t = "Str" -> Len(v.s) > 0
    [] v.t = "Nil" -> FALSE
    [] v.t = "Callable" -> TRUE

is_truthy(v) ==
  CASE v.t = "Bool" -> v.b
    [] v.t = "Number" -> ~F64Eq(v.n, Rat(0, 1))
    [] v.t = "Str" -> Len(v.s) > 0
    [] v.t = "Nil" -> FALSE
    [] v.t = "Callable" -> TRUE

is_falsy(v) == ~is_truthy(v)

(***************************************************************************)
(* Display for Value: decimal digits of a number.  A non-integer is shown  *)
(* by its digits when its decimal expansion ends within MaxFracDigits      *)
(* digits, and as num/den otherwise (f64's shortest round-trip digits are  *)
(* not modelled).                                                          *)
(***************************************************************************)
Digit(i) == SubSeq("0123456789", i + 1, i + 1)

RECURSIVE NatStr(_)
NatStr(i) == IF i < 10 THEN Digit(i) ELSE NatStr(i \div 10) \o Digit(i % 10)

RECURSIVE FracStr(_, _, _)
FracStr(r, d, k) ==
  IF r = 0 \/ k = 0 THEN ""
  ELSE Digit((r * 10) \div d) \o FracStr((r * 10) % d, d, k - 1)

RECURSIVE Terminates(_, _, _)
Terminates(r, d, k) ==
  IF r = 0 THEN TRUE
  ELSE IF k = 0 THEN FALSE
  ELSE Terminates((r * 10) % d, d, k - 1)

MaxFracDigits == 6

F64Str(a) ==
  IF IsNaN(a) THEN "NaN"
  ELSE IF IsInf(a) THEN (IF a.num > 0 THEN "inf" ELSE "-inf")
  ELSE LET sign == IF a.num < 0 THEN "-" ELSE ""
           m == Abs(a.num)
       IN IF a.den = 1 THEN sign \o NatStr(m)
          ELSE IF Terminates(m % a.den, a.den, MaxFracDigits)
               THEN sign \o NatStr(m \div a.den) \o "."
                         \o FracStr(m % a.den, a.den, MaxFracDigits)
          ELSE sign \o NatStr(m) \o "/" \o NatStr(a.den)

(***************************************************************************)
(* Lexer (src/src/lexer/mod.rs).  The lexer state lx is [pos, line, col];  *)
(* Option<char> None is the empty string.                                  *)
(***************************************************************************)
NoChar == ""

AsciiDigits == {"0", "1", "2", "3", "4", "5", "6", "7", "8", "9"}

AsciiLetters ==
  {"a", "b", "c", "d", "e", "f", "g", "h", "i", "j", "k", "l", "m",
   "n", "o", "p", "q", "r", "s", "t", "u", "v", "w", "x", "y", "z",
   "A", "B", "C", "D", "E", "F", "G", "H", "I", "J", "K", "L", "M",
   "N", "O", "P", "Q", "R", "S", "T", "U", "V", "W", "X", "Y", "Z"}

is_ascii_digit(ch) == ch \in AsciiDigits
is_ascii_alphabetic(ch) == ch \in AsciiLetters
is_ascii_alphanumeric(ch) == ch \in AsciiDigits \/ ch \in AsciiLetters

Token(line, col, kind) == [line |-> line, col |-> col, kind |-> kind]
Kind(k) == [k |-> k]
KindIdentifier(name) == [k |-> "Identifier", s |-> name]
KindString(s) == [k |-> "String", s |-> s]
KindNumber(n) == [k |-> "Number", n |-> n]

LexerError(line, col, kind) == [line |-> line, col |-> col, kind |-> kind]

Lexer_new == [pos |-> 0, line |-> 1, col |-> 1]

lexer_prev(src, lx) == SubSeq(src, lx.pos, lx.pos)

lexer_peek(src, lx) ==
  IF lx.pos < Len(src) THEN SubSeq(src, lx.pos + 1, lx.pos + 1) ELSE NoChar

lexer_consume(src, lx) ==
  LET ch == lexer_peek(src, lx)
  IN IF ch = NoChar THEN lx
     ELSE [pos |-> lx.pos + 1,
           line |-> IF ch = "\n" THEN lx.line + 1 ELSE lx.line,
           col |-> (IF ch = "\n" THEN 0 ELSE lx.col) + 1]

match_optional_equal(src, lx, default, optional) ==
  IF lexer_peek(src, lx) = "="
  THEN [ok |-> TRUE, lx |-> lexer_consume(src, lx), kind |-> Kind(optional)]
  ELSE [ok |-> TRUE, lx |-> lx, kind |-> Kind(default)]

\* the while loop of match_string: collect up to the closing quote
RECURSIVE match_string_loop(_, _, _)
match_string_loop(src, lx, acc) ==
  LET ch == lexer_peek(src, lx)
  IN IF ch = NoChar \/ ch = "\"" THEN [lx |-> lx, text |-> acc]
     ELSE match_string_loop(src, lexer_consume(src, lx), acc \o ch)

match_string(src, lx) ==
  LET r == match_string_loop(src, lx, "")
  IN IF lexer_peek(src, r.lx) = NoChar
     THEN [ok |-> FALSE, lx |-> r.lx,
           err |-> LexerError(r.lx.line, r.lx.col, [k |-> "UnterminatedString"])]
     ELSE [ok |-> TRUE, lx |-> lexer_consume(src, r.lx), kind |-> KindString(r.text)]

\* the while loop of match_number: collect the run of digits and dots
RECURSIVE match_number_loop(_, _, _)
match_number_loop(src, lx, acc) ==
  LET ch == lexer_peek(src, lx)
  IN IF ch = NoChar \/ (~is_ascii_digit(ch) /\ ch # ".") THEN [lx |-> lx, text |-> acc]
     ELSE match_number_loop(src, lexer_consume(src, lx), acc \o ch)

DigitVal(ch) == CHOOSE i \in 0..9 : Digit(i) = ch

\* str::parse::<f64> on a run of digits and dots that starts with a digit:
\* Digit+ | Digit+ '.' Digit* is accepted, a second dot is refused.
\* acc is [int, scale, dots]: the digits read as an integer, 10^(digits after
\* the dot) and the number of dots.
RECURSIVE parse_f64_loop(_, _, _)
parse_f64_loop(text, i, acc) ==
  IF i > Len(text) THEN acc
  ELSE LET ch == SubSeq(text, i, i)
       IN IF ch = "."
          THEN parse_f64_loop(text, i + 1, [acc EXCEPT !.dots = @ + 1])
          ELSE parse_f64_loop(text, i + 1,
                 [int |-> acc.int * 10 + DigitVal(ch),
                  scale |-> IF acc.dots > 0 THEN acc.scale * 10 ELSE acc.scale,
                  dots |-> acc.dots])

parse_f64(text) ==
  LET acc == parse_f64_loop(text, 1, [int |-> 0, scale |-> 1, dots |-> 0])
  IN IF acc.dots > 1 THEN [ok |-> FALSE]
     ELSE [ok |-> TRUE, n |-> Rat(acc.int, acc.scale)]

match_number(src, lx) ==
  LET r == match_number_loop(src, lx, lexer_prev(src, lx))
      n == parse_f64(r.text)
  IN IF n.ok
     THEN [ok |-> TRUE, lx |-> r.lx, kind |-> KindNumber(n.n)]
     ELSE [ok |-> FALSE, lx |-> r.lx,
           err |-> LexerError(r.lx.line, r.lx.col,
                              [k |-> "InvalidNumber", s |-> r.text])]

\* the while loop of match_identifier_or_keyword
RECURSIVE match_identifier_loop(_, _, _)
match_identifier_loop(src, lx, acc) ==
  LET ch == lexer_peek(src, lx)
  IN IF ch = NoChar \/ (~is_ascii_alphanumeric(ch) /\ ch # "_")
     THEN [lx |-> lx, text |-> acc]
     ELSE match_identifier_loop(src, lexer_consume(src, lx), acc \o ch)

Keywords ==
  [and |-> "And", class |-> "Class", else |-> "Else", false |-> "False",
   fun |-> "Fun", for |-> "For", if |-> "If", nil |-> "Nil", or |-> "Or",
   print |-> "Print", return |-> "Return", super |-> "Super",
   this |-> "This", true |-> "True", var |-> "Var", while |-> "While"]

match_identifier_or_keyword(src, lx) ==
  LET r == match_identifier_loop(src, lx, lexer_prev(src, lx))
  IN [ok |-> TRUE, lx |-> r.lx,
      kind |-> IF r.text \in DOMAIN Keywords THEN Kind(Keywords[r.text])
               ELSE KindIdentifier(r.text)]

SingleCharTokens ==
  [c \in {"(", ")", "{", "}", ",", ".", "-", "+", ";", "/", "*"} |->
     CASE c = "(" -> "LeftParen"
       [] c = ")" -> "RightParen"
       [] c = "{" -> "LeftBrace"
       [] c = "}" -> "RightBrace"
       [] c = "," -> "Comma"
       [] c = "." -> "Dot"
       [] c = "-" -> "Minus"
       [] c = "+" -> "Plus"
       [] c = ";" -> "Semicolon"
       [] c = "/" -> "Slash"
       [] c = "*" -> "Star"]

Whitespace == {" ", "\t", "\r", "\n"}

\* the match of tokenize's loop body, for the character ch just consumed;
\* lx is the lexer state after consuming ch
tokenize_match(src, lx, ch) ==
  CASE ch \in DOMAIN SingleCharTokens ->
         [ok |-> TRUE, lx |-> lx, kind |-> Kind(SingleCharTokens[ch])]
    [] ch = "!" -> match_optional_equal(src, lx, "Bang", "BangEqual")
    [] ch = "=" -> match_optional_equal(src, lx, "Equal", "EqualEqual")
    [] ch = ">" -> match_optional_equal(src, lx, "Greater", "GreaterEqual")
    [] ch = "<" -> match_optional_equal(src, lx, "Less", "LessEqual")
    [] ch = "\"" -> match_string(src, lx)
    [] is_ascii_digit(ch) -> match_number(src, lx)
    [] is_ascii_alphabetic(ch) -> match_identifier_or_keyword(src, lx)
    [] OTHER ->
         [ok |-> FALSE, lx |-> lx,
          err |-> LexerError(lx.line, lx.col, [k |-> "UnexpectedChar", s |-> ch])]

(***************************************************************************)
(* AST (src/src/parser/expr.rs, src/src/parser/stmt.rs).                   *)
(***************************************************************************)
Unary(op, right) == [k |-> "Unary", op |-> op, right |-> right]
Binary(left, op, right) == [k |-> "Binary", left |-> left, op |-> op, right |-> right]
Grouping(expr) == [k |-> "Grouping", expr |-> expr]
Literal(value) == [k |-> "Literal", value |-> value]
Variable(id, variable) == [k |-> "Variable", id |-> id, variable |-> variable]
Assignment(id, variable, expr) ==
  [k |-> "Assignment", id |-> id, variable |-> variable, expr |-> expr]
Logical(left, op, right) == [k |-> "Logical", left |-> left, op |-> op, right |-> right]
FunCall(callee, paren, args) ==
  [k |-> "FunCall", callee |-> callee, paren |-> paren, args |-> args]

ExprStmt(expr) == [k |-> "ExprStmt", expr |-> expr]
PrintStmt(expr) == [k |-> "PrintStmt", expr |-> expr]
VarDecl(variable, expr) == [k |-> "VarDecl", variable |-> variable, expr |-> expr]
Block(ss) == [k |-> "Block", stmts |-> ss]
If(condition, then_stmt, else_stmt) ==
  [k |-> "If", condition |-> condition, then_stmt |-> then_stmt, else_stmt |-> else_stmt]
While(condition, body) == [k |-> "While", condition |-> condition, body |-> body]
FunDecl(name, params, body) ==
  [k |-> "FunDecl", name |-> name, params |-> params, body |-> body]
Return(expr) == [k |-> "Return", expr |-> expr]

extract_identifier(token) == token.kind.s

(***************************************************************************)
(* Parser (src/src/parser/mod.rs).  p is the Parser struct; a method       *)
(* returning Result<T, ParseError> returns [ok, p, v] or [ok, p, err],     *)
(* p being the parser as the method left it.                               *)
(***************************************************************************)
POk(p, v) == [ok |-> TRUE, p |-> p, v |-> v]
PErr(p, err) == [ok |-> FALSE, p |-> p, err |-> err]

ParseError_at(token, kind) == [token |-> token, kind |-> kind]
ExpectedExpression == [k |-> "ExpectedExpression"]
Expected(what) == [k |-> "Expected", s |-> what]

\* TokenKind::name (src/src/lexer/tokens.rs)
kind_name(k) ==
  CASE k = "LeftParen" -> "("
    [] k = "RightParen" -> ")"
    [] k = "LeftBrace" -> "{"
    [] k = "RightBrace" -> "}"
    [] k = "Comma" -> ","
    [] k = "Dot" -> "."
    [] k = "Minus" -> "-"
    [] k = "Plus" -> "+"
    [] k = "Semicolon" -> ";"
    [] k = "Slash" -> "/"
    [] k = "Star" -> "*"
    [] k = "Bang" -> "!"
    [] k = "BangEqual" -> "!="
    [] k = "Equal" -> "="
    [] k = "EqualEqual" -> "=="
    [] k = "Greater" -> ">"
    [] k = "GreaterEqual" -> ">="
    [] k = "Less" -> "<"
    [] k = "LessEqual" -> "<="
    [] k = "Identifier" -> "identifier"
    [] k = "String" -> "string"
    [] k = "Number" -> "number"
    [] k = "And" -> "and"
    [] k = "Class" -> "class"
    [] k = "Else" -> "else"
    [] k = "False" -> "false"
    [] k = "Fun" -> "function"
    [] k = "For" -> "for"
    [] k = "If" -> "if"
    [] k = "Nil" -> "nil"
    [] k = "Or" -> "or"
    [] k = "Print" -> "print"
    [] k = "Return" -> "return"
    [] k = "Super" -> "super"
    [] k = "This" -> "this"
    [] k = "True" -> "true"
    [] k = "Var" -> "var"
    [] k = "While" -> "while"
    [] k = "Eof" -> "eof"

Parser_new(toks) == [tokens |-> toks, pos |-> 0, errors |-> <<>>, curr_var_id |-> 0]

\* the two panics of Parser::new: an empty token list, or a last token that
\* is not Eof
Parser_new_panics(toks) == toks = <<>> \/ Last(toks).kind.k # "Eof"

parser_peek(p) == p.tokens[p.pos + 1]
peek_kind(p) == parser_peek(p).kind.k
parser_prev(p, offset) == p.tokens[p.pos - offset + 1]
is_at_end(p) == peek_kind(p) = "Eof"

\* consume returns the token that was peeked; the parser never moves past Eof
parser_consume(p) == IF peek_kind(p) = "Eof" THEN p ELSE [p EXCEPT !.pos = @ + 1]

\* incr_var_id leaving the counter as it is
incr_var_id_stuck(p) == p

incr_var_id(p) == [p EXCEPT !.curr_var_id = @ + 1]

consume_optional(p, kind) ==
  IF peek_kind(p) = kind THEN [b |-> TRUE, p |-> parser_consume(p)]
  ELSE [b |-> FALSE, p |-> p]

consume_expect(p, kind) ==
  IF peek_kind(p) = kind THEN POk(parser_consume(p), parser_peek(p))
  ELSE PErr(p, ParseError_at(parser_peek(p), Expected(kind_name(kind))))

consume_expect_identifier(p) ==
  IF peek_kind(p) = "Identifier" THEN POk(parser_consume(p), parser_peek(p))
  ELSE PErr(p, ParseError_at(parser_peek(p), Expected("identifier")))

\* the tokens a synchronization that stops on semicolons too would stop at
SyncKindsSemicolon ==
  {"Class", "Fun", "Var", "For", "If", "While", "Print", "Return", "Eof", "Semicolon"}

SyncKinds == {"Class", "Fun", "Var", "For", "If", "While", "Print", "Return", "Eof"}

RECURSIVE synchronize_loop(_)
synchronize_loop(p) ==
  IF peek_kind(p) \in SyncKinds THEN p ELSE synchronize_loop(parser_consume(p))

synchronize(p, error) == synchronize_loop([p EXCEPT !.errors = Append(@, error)])

\* The grammar's functions call one another through `rule`, which applies
\* the function of the given name.
RECURSIVE rule(_, _), block_stmt_loop(_, _), parameters_loop(_, _),
          arguments_loop(_, _), parse_binary_loop(_, _, _, _),
          parse_logical_loop(_, _, _, _)


primary(p) ==
  LET token == parser_peek(p)
      k == token.kind.k
  IN CASE k = "Number" -> POk(parser_consume(p), Literal(Number(token.kind.n)))
       [] k = "String" -> POk(parser_consume(p), Literal(Str(token.kind.s)))
       [] k = "True" -> POk(parser_consume(p), Literal(Bool(TRUE)))
       [] k = "False" -> POk(parser_consume(p), Literal(Bool(FALSE)))
       [] k = "Nil" -> POk(parser_consume(p), Literal(Nil))
       [] k = "Identifier" ->
            LET p1 == incr_var_id(p)
            IN POk(parser_consume(p1), Variable(p1.curr_var_id, token))
       [] k = "LeftParen" ->
            LET r == rule("expression", parser_consume(p))
            IN IF ~r.ok THEN r
               ELSE LET c == consume_expect(r.p, "RightParen")
                    IN IF ~c.ok THEN c ELSE POk(c.p, Grouping(r.v))
       [] OTHER -> PErr(p, ParseError_at(token, ExpectedExpression))

arguments_loop(p, args) ==
  LET r == rule("expression", p)
  IN IF ~r.ok THEN r
     ELSE IF peek_kind(r.p) = "RightParen" THEN POk(r.p, Append(args, r.v))
     ELSE LET c == consume_expect(r.p, "Comma")
          IN IF ~c.ok THEN c ELSE arguments_loop(c.p, Append(args, r.v))

arguments(p) ==
  IF peek_kind(p) # "RightParen" THEN arguments_loop(p, <<>>) ELSE POk(p, <<>>)

\* call accepting any number of argument lists after the primary
RECURSIVE call_chained_loop(_)
call_chained_loop(r) ==
  IF peek_kind(r.p) = "LeftParen"
  THEN LET a == arguments(parser_consume(r.p))
       IN IF ~a.ok THEN a
          ELSE LET c == consume_expect(a.p, "RightParen")
               IN IF ~c.ok THEN c
                  ELSE call_chained_loop(POk(c.p, FunCall(r.v, c.v, a.v)))
  ELSE r

call_chained(p) ==
  LET r == rule("primary", p)
  IN IF ~r.ok THEN r ELSE call_chained_loop(r)

call(p) ==
  LET r == rule("primary", p)
  IN IF ~r.ok THEN r
     ELSE IF peek_kind(r.p) = "LeftParen"
     THEN LET a == arguments(parser_consume(r.p))
          IN IF ~a.ok THEN a
             ELSE LET c == consume_expect(a.p, "RightParen")
                  IN IF ~c.ok THEN c ELSE POk(c.p, FunCall(r.v, c.v, a.v))
     ELSE r

unary(p) ==
  IF peek_kind(p) = "Bang" \/ peek_kind(p) = "Minus"
  THEN LET op == parser_peek(p)
           r == rule("unary", parser_consume(p))
       IN IF ~r.ok THEN r ELSE POk(r.p, Unary(op, r.v))
  ELSE rule("call", p)

parse_binary_loop(p, expr, sub, operators) ==
  IF peek_kind(p) \notin operators THEN POk(p, expr)
  ELSE LET op == parser_peek(p)
           r == rule(sub, parser_consume(p))
       IN IF ~r.ok THEN r
          ELSE parse_binary_loop(r.p, Binary(expr, op, r.v), sub, operators)

parse_binary(p, sub, operators) ==
  LET r == rule(sub, p)
  IN IF ~r.ok THEN r ELSE parse_binary_loop(r.p, r.v, sub, operators)

factor(p) == parse_binary(p, "unary", {"Star", "Slash"})
term(p) == parse_binary(p, "factor", {"Plus", "Minus"})
comparison(p) == parse_binary(p, "term", {"Greater", "GreaterEqual", "Less", "LessEqual"})
equality(p) == parse_binary(p, "comparison", {"EqualEqual", "BangEqual"})

parse_logical_loop(p, expr, sub, operators) ==
  IF peek_kind(p) \notin operators THEN POk(p, expr)
  ELSE LET op == parser_peek(p)
           r == rule(sub, parser_consume(p))
       IN IF ~r.ok THEN r
          ELSE parse_logical_loop(r.p, Logical(expr, op, r.v), sub, operators)

parse_logical(p, sub, operators) ==
  LET r == rule(sub, p)
  IN IF ~r.ok THEN r ELSE parse_logical_loop(r.p, r.v, sub, operators)

and(p) == parse_logical(p, "equality", {"And"})
or(p) == parse_logical(p, "and", {"Or"})

\* the function pointer `subexpr` handed to parse_binary and parse_logical
assignment(p) ==
  LET r == rule("or", p)
  IN IF ~r.ok THEN r
     ELSE LET o == consume_optional(r.p, "Equal")
          IN IF o.b
             THEN IF r.v.k = "Variable"
                  THEN LET e == rule("assignment", o.p)
                       IN IF ~e.ok THEN e
                          ELSE POk(e.p, Assignment(r.v.id, r.v.variable, e.v))
                  ELSE PErr(o.p, ParseError_at(parser_prev(o.p, 2), Expected("identifier")))
             ELSE POk(o.p, r.v)

expression(p) == rule("assignment", p)


expr_stmt(p) ==
  LET r == rule("expression", p)
  IN IF ~r.ok THEN r
     ELSE LET c == consume_expect(r.p, "Semicolon")
          IN IF ~c.ok THEN c ELSE POk(c.p, ExprStmt(r.v))

return_stmt(p) ==
  LET c1 == consume_expect(p, "Return")
  IN IF ~c1.ok THEN c1
     ELSE LET r == rule("expression", c1.p)
          IN IF ~r.ok THEN r
             ELSE LET c2 == consume_expect(r.p, "Semicolon")
                  IN IF ~c2.ok THEN c2 ELSE POk(c2.p, Return(r.v))

print_stmt(p) ==
  LET c1 == consume_expect(p, "Print")
  IN IF ~c1.ok THEN c1
     ELSE LET r == rule("expression", c1.p)
          IN IF ~r.ok THEN r
             ELSE LET c2 == consume_expect(r.p, "Semicolon")
                  IN IF ~c2.ok THEN c2 ELSE POk(c2.p, PrintStmt(r.v))

var_decl(p) ==
  LET c1 == consume_expect(p, "Var")
  IN IF ~c1.ok THEN c1
     ELSE LET iden == consume_expect_identifier(c1.p)
          IN IF ~iden.ok THEN iden
             ELSE LET o == consume_optional(iden.p, "Equal")
                      r == IF o.b THEN rule("expression", o.p) ELSE POk(o.p, None)
                  IN IF ~r.ok THEN r
                     ELSE LET c2 == consume_expect(r.p, "Semicolon")
                          IN IF ~c2.ok THEN c2
                             ELSE POk(c2.p, VarDecl(iden.v,
                                                    IF o.b THEN Some(r.v) ELSE None))

block_stmt_loop(p, ss) ==
  IF peek_kind(p) = "RightBrace" \/ peek_kind(p) = "Eof" THEN POk(p, ss)
  ELSE LET r == rule("declaration", p)
       IN IF ~r.ok THEN r ELSE block_stmt_loop(r.p, Append(ss, r.v))

block_stmt(p) ==
  LET c1 == consume_expect(p, "LeftBrace")
  IN IF ~c1.ok THEN c1
     ELSE LET r == block_stmt_loop(c1.p, <<>>)
          IN IF ~r.ok THEN r
             ELSE LET c2 == consume_expect(r.p, "RightBrace")
                  IN IF ~c2.ok THEN c2 ELSE POk(c2.p, Block(r.v))

if_stmt(p) ==
  LET c1 == consume_expect(p, "If")
  IN IF ~c1.ok THEN c1
     ELSE LET c2 == consume_expect(c1.p, "LeftParen")
          IN IF ~c2.ok THEN c2
             ELSE LET e == rule("expression", c2.p)
                  IN IF ~e.ok THEN e
                     ELSE LET c3 == consume_expect(e.p, "RightParen")
                          IN IF ~c3.ok THEN c3
                             ELSE LET t == rule("statement", c3.p)
                                  IN IF ~t.ok THEN t
                                     ELSE LET o == consume_optional(t.p, "Else")
                                              el == IF o.b THEN rule("statement", o.p)
                                                    ELSE POk(o.p, None)
                                          IN IF ~el.ok THEN el
                                             ELSE POk(el.p,
                                                      If(e.v, t.v,
                                                         IF o.b THEN Some(el.v) ELSE None))

while_stmt(p) ==
  LET c1 == consume_expect(p, "While")
  IN IF ~c1.ok THEN c1
     ELSE LET c2 == consume_expect(c1.p, "LeftParen")
          IN IF ~c2.ok THEN c2
             ELSE LET e == rule("expression", c2.p)
                  IN IF ~e.ok THEN e
                     ELSE LET c3 == consume_expect(e.p, "RightParen")
                          IN IF ~c3.ok THEN c3
                             ELSE LET b == rule("statement", c3.p)
                                  IN IF ~b.ok THEN b ELSE POk(b.p, While(e.v, b.v))

\* for_stmt after `for (`: the initializer clause
for_initializer(p) ==
  IF peek_kind(p) = "Semicolon" THEN POk(parser_consume(p), None)
  ELSE LET r == IF peek_kind(p) = "Var" THEN rule("var_decl", p) ELSE rule("expr_stmt", p)
       IN IF ~r.ok THEN r ELSE POk(r.p, Some(r.v))

\* for_condition in which an omitted condition is nil
for_condition_nil(p) ==
  LET r == IF peek_kind(p) = "Semicolon" THEN POk(p, Literal(Nil))
           ELSE rule("expression", p)
  IN IF ~r.ok THEN r
     ELSE LET c == consume_expect(r.p, "Semicolon")
          IN IF ~c.ok THEN c ELSE POk(c.p, r.v)

\* for_stmt: the condition clause and its semicolon
for_condition(p) ==
  LET r == IF peek_kind(p) = "Semicolon" THEN POk(p, Literal(Bool(TRUE)))
           ELSE rule("expression", p)
  IN IF ~r.ok THEN r
     ELSE LET c == consume_expect(r.p, "Semicolon")
          IN IF ~c.ok THEN c ELSE POk(c.p, r.v)

\* for_stmt: the increment clause and the closing parenthesis
for_increment(p) ==
  LET r == IF peek_kind(p) = "RightParen" THEN POk(p, None)
           ELSE LET e == rule("expression", p)
                IN IF ~e.ok THEN e ELSE POk(e.p, Some(e.v))
  IN IF ~r.ok THEN r
     ELSE LET c == consume_expect(r.p, "RightParen")
          IN IF ~c.ok THEN c ELSE POk(c.p, r.v)

for_stmt(p) ==
  LET c1 == consume_expect(p, "For")
  IN IF ~c1.ok THEN c1
     ELSE LET c2 == consume_expect(c1.p, "LeftParen")
          IN IF ~c2.ok THEN c2
             ELSE LET initializer == for_initializer(c2.p)
                  IN IF ~initializer.ok THEN initializer
                     ELSE LET condition == for_condition(initializer.p)
                          IN IF ~condition.ok THEN condition
                             ELSE LET increment == for_increment(condition.p)
                                  IN IF ~increment.ok THEN increment
                                     ELSE LET b == rule("statement", increment.p)
                                          IN IF ~b.ok THEN b
                                             ELSE LET body ==
                                                        IF IsSome(increment.v)
                                                        THEN Block(<<b.v,
                                                               ExprStmt(Unwrap(increment.v))>>)
                                                        ELSE b.v
                                                      while_stmt_ == While(condition.v, body)
                                                  IN POk(b.p,
                                                         IF IsSome(initializer.v)
                                                         THEN Block(<<Unwrap(initializer.v),
                                                                      while_stmt_>>)
                                                         ELSE while_stmt_)

statement(p) ==
  CASE peek_kind(p) = "Print" -> rule("print_stmt", p)
    [] peek_kind(p) = "LeftBrace" -> rule("block_stmt", p)
    [] peek_kind(p) = "If" -> rule("if_stmt", p)
    [] peek_kind(p) = "While" -> rule("while_stmt", p)
    [] peek_kind(p) = "For" -> rule("for_stmt", p)
    [] peek_kind(p) = "Return" -> rule("return_stmt", p)
    [] OTHER -> rule("expr_stmt", p)

parameters_loop(p, params) ==
  LET r == consume_expect_identifier(p)
  IN IF ~r.ok THEN r
     ELSE IF peek_kind(r.p) = "RightParen" THEN POk(r.p, Append(params, r.v))
     ELSE LET c == consume_expect(r.p, "Comma")
          IN IF ~c.ok THEN c ELSE parameters_loop(c.p, Append(params, r.v))

parameters(p) ==
  IF peek_kind(p) # "RightParen" THEN parameters_loop(p, <<>>) ELSE POk(p, <<>>)

fun_decl(p) ==
  LET c1 == consume_expect(p, "Fun")
  IN IF ~c1.ok THEN c1
     ELSE LET name == consume_expect_identifier(c1.p)
          IN IF ~name.ok THEN name
             ELSE LET c2 == consume_expect(name.p, "LeftParen")
                  IN IF ~c2.ok THEN c2
                     ELSE LET params == parameters(c2.p)
                          IN IF ~params.ok THEN params
                             ELSE LET c3 == consume_expect(params.p, "RightParen")
                                  IN IF ~c3.ok THEN c3
                                     ELSE LET body == rule("block_stmt", c3.p)
                                          IN IF ~body.ok THEN body
                                             ELSE POk(body.p,
                                                      FunDecl(name.v, params.v, body.v))

declaration(p) ==
  CASE peek_kind(p) = "Var" -> rule("var_decl", p)
    [] peek_kind(p) = "Fun" -> rule("fun_decl", p)
    [] OTHER -> rule("statement", p)

\* one iteration of the while loop of Parser::parse; ps is [p, stmts]
rule(name, p) ==
  CASE name = "primary" -> primary(p)
    [] name = "call" -> call(p)
    [] name = "unary" -> unary(p)
    [] name = "factor" -> factor(p)
    [] name = "term" -> term(p)
    [] name = "comparison" -> comparison(p)
    [] name = "equality" -> equality(p)
    [] name = "and" -> and(p)
    [] name = "or" -> or(p)
    [] name = "assignment" -> assignment(p)
    [] name = "expression" -> expression(p)
    [] name = "expr_stmt" -> expr_stmt(p)
    [] name = "return_stmt" -> return_stmt(p)
    [] name = "print_stmt" -> print_stmt(p)
    [] name = "var_decl" -> var_decl(p)
    [] name = "block_stmt" -> block_stmt(p)
    [] name = "if_stmt" -> if_stmt(p)
    [] name = "while_stmt" -> while_stmt(p)
    [] name = "for_stmt" -> for_stmt(p)
    [] name = "statement" -> statement(p)
    [] name = "fun_decl" -> fun_decl(p)
    [] name = "declaration" -> declaration(p)

\* the body of parse's loop for the result of declaration()
push_or_synchronize(ps, decl_res) ==
  IF decl_res.ok
  THEN [p |-> decl_res.p, stmts |-> Append(ps.stmts, decl_res.v)]
  ELSE [p |-> synchronize(decl_res.p, decl_res.err), stmts |-> ps.stmts]

parse_iteration(ps) == push_or_synchronize(ps, rule("declaration", ps.p))


(***************************************************************************)
(* Resolver (src/src/resolver/mod.rs).  r is the Resolver struct; a scope  *)
(* (HashMap<String, VariableState>) is a function from names, and          *)
(* `bindings` a function from expression ids.  A HashMap iterates in an    *)
(* order the program does not control: r.hash_order, a sequence holding    *)
(* every name once, is the order in which into_values() yields them.       *)
(* A method returning Result<(), ResolveError> returns [ok, r] or          *)
(* [ok, r, err], r being the resolver as the method left it.               *)
(***************************************************************************)
EmptyMap == [x \in {} |-> x]
MapInsert(m, key, v) == [x \in DOMAIN m \cup {key} |-> IF x = key THEN v ELSE m[x]]

ROk(r) == [ok |-> TRUE, r |-> r]
RErr(r, err) == [ok |-> FALSE, r |-> r, err |-> err]

ResolveError(kind, token) == [k |-> kind, token |-> token]

\* VariableState (src/src/resolver/variable_state.rs)
VariableState_new(token) == [token |-> token, ever_assigned |-> FALSE, ever_read |-> FALSE]
mark_assigned(vs) == [vs EXCEPT !.ever_assigned = TRUE]
mark_read(vs) == [vs EXCEPT !.ever_read = TRUE]

check(vs) ==
  IF ~vs.ever_assigned THEN [ok |-> FALSE, err |-> ResolveError("UnassignedVariable", vs.token)]
  ELSE IF ~vs.ever_read THEN [ok |-> FALSE, err |-> ResolveError("UnusedVariable", vs.token)]
  ELSE [ok |-> TRUE]

Resolver_new(hash_order) ==
  [scopes |-> <<EmptyMap>>, bindings |-> EmptyMap, errors |-> <<>>,
   hash_order |-> hash_order]

\* bindings.get(&id).expect(..): a panic is [ok |-> FALSE, panic |-> message]
get_bound_depth(bound, id) ==
  IF id \in DOMAIN bound
  THEN [ok |-> TRUE, depth |-> bound[id]]
  ELSE [ok |-> FALSE, panic |-> "expected that reference is resolved"]

resolver_begin_scope(r) == [r EXCEPT !.scopes = Append(@, EmptyMap)]

\* scope.into_values(): the variable states of a scope in iteration order
into_values(scope, hash_order) ==
  LET names == SelectSeq(hash_order, LAMBDA n : n \in DOMAIN scope)
  IN [i \in 1..Len(names) |-> scope[names[i]]]

\* the errors of check() over a sequence of variable states, in order
RECURSIVE check_all(_)
check_all(values) ==
  IF values = <<>> THEN <<>>
  ELSE LET c == check(Head(values))
       IN (IF c.ok THEN <<>> ELSE <<c.err>>) \o check_all(Tail(values))

resolver_end_scope(r) ==
  LET scope == Last(r.scopes)
      r1 == [r EXCEPT !.scopes = Front(@)]
      errs == check_all(into_values(scope, r.hash_order))
  IN IF errs = <<>> THEN ROk(r1) ELSE RErr(r1, Head(errs))

end_scope_extensive(r) ==
  LET scope == Last(r.scopes)
      r1 == [r EXCEPT !.scopes = Front(@)]
  IN [r |-> r1, errs |-> check_all(into_values(scope, r.hash_order))]

\* declare_optional_assigned inserting the new state also when the name is
\* already in the scope
declare_optional_assigned_overwriting(r, variable_tok, assigned) ==
  LET name == extract_identifier(variable_tok)
      n == Len(r.scopes)
      last == r.scopes[n]
      vs == VariableState_new(variable_tok)
      r1 == [r EXCEPT !.scopes[n] =
               MapInsert(last, name, IF assigned THEN mark_assigned(vs) ELSE vs)]
  IN IF name \notin DOMAIN last
     THEN ROk(r1)
     ELSE RErr(r1, ResolveError("OvershadowingSameBlock", variable_tok))

declare_optional_assigned(r, variable_tok, assigned) ==
  LET name == extract_identifier(variable_tok)
      n == Len(r.scopes)
      last == r.scopes[n]
      vs == VariableState_new(variable_tok)
  IN IF name \notin DOMAIN last
     THEN ROk([r EXCEPT !.scopes[n] =
                 MapInsert(last, name, IF assigned THEN mark_assigned(vs) ELSE vs)])
     ELSE RErr(r, ResolveError("OvershadowingSameBlock", variable_tok))

resolver_declare(r, variable) == declare_optional_assigned(r, variable, FALSE)
declare_assigned(r, variable) == declare_optional_assigned(r, variable, TRUE)

assign_curr_scope_non_binding(r, iden) ==
  [r EXCEPT !.scopes[Len(r.scopes)][extract_identifier(iden)] = mark_assigned(@)]

\* the loop of bind_assign_or_access over scopes.iter_mut().rev(); i is the
\* index of the scope looked at, depth the number of scopes passed
RECURSIVE bind_loop(_, _, _, _, _)
bind_loop(r, id, token, should_assign, i) ==
  LET name == extract_identifier(token)
      depth == Len(r.scopes) - i
  IN IF i = 0 THEN RErr(r, ResolveError("UndeclaredVariable", token))
     ELSE IF name \in DOMAIN r.scopes[i]
     THEN ROk([r EXCEPT !.scopes[i][name] =
                          IF should_assign THEN mark_assigned(@) ELSE mark_read(@),
                        !.bindings = MapInsert(@, id, depth)])
     ELSE bind_loop(r, id, token, should_assign, i - 1)

\* bind_assign_or_access that does not look at the innermost scope
bind_assign_or_access_enclosing(r, id, token, should_assign) ==
  bind_loop(r, id, token, should_assign, Len(r.scopes) - 1)

bind_assign_or_access(r, id, token, should_assign) ==
  bind_loop(r, id, token, should_assign, Len(r.scopes))

bind_assign(r, id, iden) == bind_assign_or_access(r, id, iden, TRUE)
bind_access(r, id, iden) == bind_assign_or_access(r, id, iden, FALSE)

RECURSIVE resolve_expr(_, _), resolve_exprs(_, _), resolve_stmt(_, _),
          resolve_stmts(_, _), declare_params(_, _)

\* resolve_expr(e)? for each e of es, in order
resolve_exprs(r, es) ==
  IF es = <<>> THEN ROk(r)
  ELSE LET a == resolve_expr(r, Head(es))
       IN IF ~a.ok THEN a ELSE resolve_exprs(a.r, Tail(es))

resolve_unary_expr(r, right) == resolve_expr(r, right)
resolve_binary_expr(r, left, right) == resolve_exprs(r, <<left, right>>)
resolve_logical_expr(r, left, right) == resolve_exprs(r, <<left, right>>)
resolve_variable(r, id, variable) == bind_access(r, id, variable)

resolve_assignment(r, id, variable, expr) ==
  LET a == resolve_expr(r, expr)
  IN IF ~a.ok THEN a ELSE bind_assign(a.r, id, variable)

resolve_fun_call(r, callee, args) == resolve_exprs(r, <<callee>> \o args)

resolve_expr(r, expr) ==
  CASE expr.k = "Unary" -> resolve_unary_expr(r, expr.right)
    [] expr.k = "Binary" -> resolve_binary_expr(r, expr.left, expr.right)
    [] expr.k = "Grouping" -> resolve_expr(r, expr.expr)
    [] expr.k = "Literal" -> ROk(r)
    [] expr.k = "Variable" -> resolve_variable(r, expr.id, expr.variable)
    [] expr.k = "Assignment" -> resolve_assignment(r, expr.id, expr.variable, expr.expr)
    [] expr.k = "Logical" -> resolve_logical_expr(r, expr.left, expr.right)
    [] expr.k = "FunCall" -> resolve_fun_call(r, expr.callee, expr.args)

resolve_print_stmt(r, expr) == resolve_expr(r, expr)
resolve_expr_stmt(r, expr) == resolve_expr(r, expr)
resolve_return_stmt(r, expr) == resolve_expr(r, expr)

\* resolve_var_decl that declares the variable before it resolves the
\* initializer
resolve_var_decl_declaring_first(r, variable, expr) ==
  LET d == resolver_declare(r, variable)
  IN IF ~d.ok THEN d
     ELSE LET a == IF IsSome(expr) THEN resolve_expr(d.r, Unwrap(expr)) ELSE ROk(d.r)
          IN IF ~a.ok THEN a
             ELSE IF IsSome(expr) THEN ROk(assign_curr_scope_non_binding(a.r, variable))
             ELSE a

resolve_var_decl(r, variable, expr) ==
  LET a == IF IsSome(expr) THEN resolve_expr(r, Unwrap(expr)) ELSE ROk(r)
  IN IF ~a.ok THEN a
     ELSE LET d == resolver_declare(a.r, variable)
          IN IF ~d.ok THEN d
             ELSE IF IsSome(expr) THEN ROk(assign_curr_scope_non_binding(d.r, variable))
             ELSE d

\* resolve_stmt(s)? for each s of ss, in order
resolve_stmts(r, ss) ==
  IF ss = <<>> THEN ROk(r)
  ELSE LET a == resolve_stmt(r, Head(ss))
       IN IF ~a.ok THEN a ELSE resolve_stmts(a.r, Tail(ss))

\* resolve_block_stmt as it would be without a scope of its own
resolve_block_stmt_unscoped(r, ss) == resolve_stmts(r, ss)

resolve_block_stmt(r, ss) ==
  LET a == resolve_stmts(resolver_begin_scope(r), ss)
  IN IF ~a.ok THEN a ELSE resolver_end_scope(a.r)

resolve_if_stmt(r, condition, then_stmt, else_stmt) ==
  LET c == resolve_expr(r, condition)
  IN IF ~c.ok THEN c
     ELSE LET t == resolve_stmt(c.r, then_stmt)
          IN IF ~t.ok THEN t
             ELSE IF IsSome(else_stmt) THEN resolve_stmt(t.r, Unwrap(else_stmt))
             ELSE t

resolve_while_stmt(r, condition, body) ==
  LET c == resolve_expr(r, condition)
  IN IF ~c.ok THEN c ELSE resolve_stmt(c.r, body)

\* declare_assigned(param)? for each param, in order
declare_params(r, params) ==
  IF params = <<>> THEN ROk(r)
  ELSE LET d == declare_assigned(r, Head(params))
       IN IF ~d.ok THEN d ELSE declare_params(d.r, Tail(params))

resolve_fun_decl(r, name, params, body) ==
  LET d == declare_assigned(r, name)
  IN IF ~d.ok THEN d
     ELSE LET ps == declare_params(resolver_begin_scope(d.r), params)
          IN IF ~ps.ok THEN ps
             ELSE LET b == resolve_stmt(ps.r, body)
                  IN IF ~b.ok THEN b ELSE resolver_end_scope(b.r)

resolve_stmt(r, stmt) ==
  CASE stmt.k = "PrintStmt" -> resolve_print_stmt(r, stmt.expr)
    [] stmt.k = "ExprStmt" -> resolve_expr_stmt(r, stmt.expr)
    [] stmt.k = "VarDecl" -> resolve_var_decl(r, stmt.variable, stmt.expr)
    [] stmt.k = "Block" -> resolve_block_stmt(r, stmt.stmts)
    [] stmt.k = "If" -> resolve_if_stmt(r, stmt.condition, stmt.then_stmt, stmt.else_stmt)
    [] stmt.k = "While" -> resolve_while_stmt(r, stmt.condition, stmt.body)
    [] stmt.k = "FunDecl" -> resolve_fun_decl(r, stmt.name, stmt.params, stmt.body)
    [] stmt.k = "Return" -> resolve_return_stmt(r, stmt.expr)

\* the for loop of Resolver::resolve: an error is pushed and the loop goes on
RECURSIVE resolve_loop(_, _)
resolve_loop(r, ss) ==
  IF ss = <<>> THEN r
  ELSE LET a == resolve_stmt(r, Head(ss))
       IN IF a.ok THEN resolve_loop(a.r, Tail(ss))
          ELSE resolve_loop([a.r EXCEPT !.errors = Append(@, a.err)], Tail(ss))

resolve(r, ss) ==
  LET r1 == resolve_loop(resolver_begin_scope(r), ss)
      e == end_scope_extensive(r1)
  IN [e.r EXCEPT !.errors = @ \o e.errs]


(***************************************************************************)
(* Environment (src/src/interpreter/environment.rs).  A frame is           *)
(* [variables, enclosing]; an Rc<RefCell<Environment>> is an index into    *)
(* the heap `envs`, and enclosing = 0 is None.  A panic of the program is  *)
(* the result [ok |-> FALSE, panic |-> message].                           *)
(***************************************************************************)
Environment_new == [variables |-> EmptyMap, enclosing |-> 0]
Environment_with_enclosing(enclosing) == [variables |-> EmptyMap, enclosing |-> enclosing]

env_declare(heap, env, variable, value) ==
  [heap EXCEPT ![env].variables = MapInsert(@, variable, value)]

\* get_at_depth as dynamic scoping would have it: the nearest frame of the
\* chain that holds the name, whatever the resolved depth is
RECURSIVE get_at_depth_dynamic(_, _, _, _)
get_at_depth_dynamic(heap, env, depth, variable) ==
  IF variable \in DOMAIN heap[env].variables
  THEN [ok |-> TRUE, v |-> heap[env].variables[variable], frame |-> env]
  ELSE IF heap[env].enclosing # 0
       THEN get_at_depth_dynamic(heap, heap[env].enclosing, depth, variable)
       ELSE [ok |-> FALSE, panic |-> "expected env at depth to exist"]

RECURSIVE get_at_depth(_, _, _, _)
get_at_depth(heap, env, depth, variable) ==
  IF depth = 0
  THEN IF variable \in DOMAIN heap[env].variables
       THEN [ok |-> TRUE, v |-> heap[env].variables[variable], frame |-> env]
       ELSE [ok |-> FALSE, panic |-> "expected env at depth to contain reference"]
  ELSE IF heap[env].enclosing # 0
       THEN get_at_depth(heap, heap[env].enclosing, depth - 1, variable)
       ELSE [ok |-> FALSE, panic |-> "expected env at depth to exist"]

RECURSIVE assign_at_depth(_, _, _, _, _)
assign_at_depth(heap, env, depth, variable, value) ==
  IF depth = 0
  THEN IF variable \in DOMAIN heap[env].variables
       THEN [ok |-> TRUE, heap |-> [heap EXCEPT ![env].variables[variable] = value]]
       ELSE [ok |-> FALSE, panic |-> "expected env at depth to contain reference"]
  ELSE IF heap[env].enclosing # 0
       THEN assign_at_depth(heap, heap[env].enclosing, depth - 1, variable, value)
       ELSE [ok |-> FALSE, panic |-> "expected env at depth to exist"]

(***************************************************************************)
(* LoxFunction (src/src/interpreter/callable/fun.rs): an Rc<LoxFunction>   *)
(* is an index into the heap `functions`.                                  *)
(***************************************************************************)
LoxFunction_new(name, params, body, env) ==
  [name |-> name, params |-> params, body |-> body, environment |-> env]

arity(fn) == Len(fn.params)

\* LoxFunction::declare_params: parameter i is declared with argument i
RECURSIVE fun_declare_params(_, _, _, _, _)
fun_declare_params(heap, env, params, args, i) ==
  IF i > Len(args) THEN heap
  ELSE fun_declare_params(
         env_declare(heap, env, extract_identifier(params[i]), args[i]),
         env, params, args, i + 1)

\* Display for Value (src/src/parser/value.rs)
Display(v, funs) ==
  CASE v.t = "Number" -> F64Str(v.n)
    [] v.t = "Str" -> v.s
    [] v.t = "Bool" -> IF v.b THEN "true" ELSE "false"
    [] v.t = "Nil" -> "nil"
    [] v.t = "Callable" -> "<callable " \o extract_identifier(funs[v.fn].name) \o ">"

(***************************************************************************)
(* String comparison: Rust compares strings byte by byte.                  *)
(***************************************************************************)
\* byte value of a character of the alphabet string literals are drawn from
Upper == "ABCDEFGHIJKLMNOPQRSTUVWXYZ"
Lower == "abcdefghijklmnopqrstuvwxyz"
Digits == "0123456789"

IndexIn(str, ch) ==
  IF \E i \in 1..Len(str) : SubSeq(str, i, i) = ch
  THEN CHOOSE i \in 1..Len(str) : SubSeq(str, i, i) = ch
  ELSE 0

CharCode(ch) ==
  CASE ch = " " -> 32
    [] IndexIn(Digits, ch) > 0 -> 47 + IndexIn(Digits, ch)
    [] IndexIn(Upper, ch) > 0 -> 64 + IndexIn(Upper, ch)
    [] ch = "_" -> 95
    [] IndexIn(Lower, ch) > 0 -> 96 + IndexIn(Lower, ch)
    [] OTHER -> 127

RECURSIVE StrLt(_, _)
StrLt(a, b) ==
  IF Len(b) = 0 THEN FALSE
  ELSE IF Len(a) = 0 THEN TRUE
  ELSE LET x == CharCode(SubSeq(a, 1, 1))
           y == CharCode(SubSeq(b, 1, 1))
       IN IF x # y THEN x < y
          ELSE StrLt(SubSeq(a, 2, Len(a)), SubSeq(b, 2, Len(b)))

(***************************************************************************)
(* RuntimeError (src/src/interpreter/errors.rs).                           *)
(***************************************************************************)
UndefinedOpBetween(left, op, right) ==
  [k |-> "UndefinedOpBetween", left |-> left, op |-> op, right |-> right]
ExpectedNumber(op) == [k |-> "ExpectedNumber", token |-> op]
CallableBadArgsCount(paren) == [k |-> "CallableBadArgsCount", token |-> paren]
ExpectedCallable(paren) == [k |-> "ExpectedCallable", token |-> paren]

\* ControlSignal, as eval_stmt uses it (src/src/interpreter/mod.rs)
SignalNone == [s |-> "None"]
SignalReturn(v) == [s |-> "Return", v |-> v]

VOk(v) == [ok |-> TRUE, v |-> v]
VErr(err) == [ok |-> FALSE, err |-> err]

\* the match of eval_unary_expr on the operand's value
unary_op(op, value) ==
  CASE op.kind.k = "Minus" ->
         IF value.t = "Number" THEN VOk(Number(F64Neg(value.n)))
         ELSE VErr(ExpectedNumber(op))
    [] op.kind.k = "Bang" -> VOk(Bool(is_falsy(value)))

\* binary_op with `+` converting its right operand when the left is a string
binary_op_coercing(l, op, r) ==
  LET k == op.kind.k
      nums == l.t = "Number" /\ r.t = "Number"
      strs == l.t = "Str" /\ r.t = "Str"
      undefined == VErr(UndefinedOpBetween(l, op, r))
  IN CASE k = "Star" -> IF nums THEN VOk(Number(F64Mul(l.n, r.n))) ELSE undefined
       [] k = "Slash" -> IF nums THEN VOk(Number(F64Div(l.n, r.n))) ELSE undefined
       [] k = "Plus" ->
            IF nums THEN VOk(Number(F64Add(l.n, r.n)))
            ELSE IF l.t = "Str" /\ r.t # "Callable" THEN VOk(Str(l.s \o Display(r, <<>>)))
            ELSE undefined
       [] k = "Minus" -> IF nums THEN VOk(Number(F64Sub(l.n, r.n))) ELSE undefined
       [] k = "Greater" ->
            IF nums THEN VOk(Bool(F64Lt(r.n, l.n)))
            ELSE IF strs THEN VOk(Bool(StrLt(r.s, l.s)))
            ELSE undefined
       [] k = "GreaterEqual" ->
            IF nums THEN VOk(Bool(F64Lt(r.n, l.n) \/ F64Eq(l.n, r.n)))
            ELSE IF strs THEN VOk(Bool(~StrLt(l.s, r.s)))
            ELSE undefined
       [] k = "Less" ->
            IF nums THEN VOk(Bool(F64Lt(l.n, r.n)))
            ELSE IF strs THEN VOk(Bool(StrLt(l.s, r.s)))
            ELSE undefined
       [] k = "LessEqual" ->
            IF nums THEN VOk(Bool(F64Lt(l.n, r.n) \/ F64Eq(l.n, r.n)))
            ELSE IF strs THEN VOk(Bool(~StrLt(r.s, l.s)))
            ELSE undefined
       [] k = "EqualEqual" ->
            IF nums THEN VOk(Bool(F64Eq(l.n, r.n)))
            ELSE IF strs THEN VOk(Bool(l.s = r.s))
            ELSE IF l.t = "Bool" /\ r.t = "Bool" THEN VOk(Bool(l.b = r.b))
            ELSE IF l.t = "Nil" /\ r.t = "Nil" THEN VOk(Bool(TRUE))
            ELSE VOk(Bool(FALSE))
       [] k = "BangEqual" ->
            IF nums THEN VOk(Bool(~F64Eq(l.n, r.n)))
            ELSE IF strs THEN VOk(Bool(l.s # r.s))
            ELSE IF l.t = "Bool" /\ r.t = "Bool" THEN VOk(Bool(l.b # r.b))
            ELSE IF l.t = "Nil" /\ r.t = "Nil" THEN VOk(Bool(FALSE))
            ELSE VOk(Bool(TRUE))

\* binary_op with `==` comparing values of every other pair by identity
binary_op_identity_equal(l, op, r) ==
  LET k == op.kind.k
      nums == l.t = "Number" /\ r.t = "Number"
      strs == l.t = "Str" /\ r.t = "Str"
      undefined == VErr(UndefinedOpBetween(l, op, r))
  IN CASE k = "Star" -> IF nums THEN VOk(Number(F64Mul(l.n, r.n))) ELSE undefined
       [] k = "Slash" -> IF nums THEN VOk(Number(F64Div(l.n, r.n))) ELSE undefined
       [] k = "Plus" ->
            IF nums THEN VOk(Number(F64Add(l.n, r.n)))
            ELSE IF strs THEN VOk(Str(l.s \o r.s))
            ELSE undefined
       [] k = "Minus" -> IF nums THEN VOk(Number(F64Sub(l.n, r.n))) ELSE undefined
       [] k = "Greater" ->
            IF nums THEN VOk(Bool(F64Lt(r.n, l.n)))
            ELSE IF strs THEN VOk(Bool(StrLt(r.s, l.s)))
            ELSE undefined
       [] k = "GreaterEqual" ->
            IF nums THEN VOk(Bool(F64Lt(r.n, l.n) \/ F64Eq(l.n, r.n)))
            ELSE IF strs THEN VOk(Bool(~StrLt(l.s, r.s)))
            ELSE undefined
       [] k = "Less" ->
            IF nums THEN VOk(Bool(F64Lt(l.n, r.n)))
            ELSE IF strs THEN VOk(Bool(StrLt(l.s, r.s)))
            ELSE undefined
       [] k = "LessEqual" ->
            IF nums THEN VOk(Bool(F64Lt(l.n, r.n) \/ F64Eq(l.n, r.n)))
            ELSE IF strs THEN VOk(Bool(~StrLt(r.s, l.s)))
            ELSE undefined
       [] k = "EqualEqual" ->
            IF nums THEN VOk(Bool(F64Eq(l.n, r.n)))
            ELSE IF strs THEN VOk(Bool(l.s = r.s))
            ELSE IF l.t = "Bool" /\ r.t = "Bool" THEN VOk(Bool(l.b = r.b))
            ELSE IF l.t = "Nil" /\ r.t = "Nil" THEN VOk(Bool(TRUE))
            ELSE VOk(Bool(l = r))
       [] k = "BangEqual" ->
            IF nums THEN VOk(Bool(~F64Eq(l.n, r.n)))
            ELSE IF strs THEN VOk(Bool(l.s # r.s))
            ELSE IF l.t = "Bool" /\ r.t = "Bool" THEN VOk(Bool(l.b # r.b))
            ELSE IF l.t = "Nil" /\ r.t = "Nil" THEN VOk(Bool(FALSE))
            ELSE VOk(Bool(TRUE))

\* the match of eval_binary_expr on the two operand values
binary_op(l, op, r) ==
  LET k == op.kind.k
      nums == l.t = "Number" /\ r.t = "Number"
      strs == l.t = "Str" /\ r.t = "Str"
      undefined == VErr(UndefinedOpBetween(l, op, r))
  IN CASE k = "Star" -> IF nums THEN VOk(Number(F64Mul(l.n, r.n))) ELSE undefined
       [] k = "Slash" -> IF nums THEN VOk(Number(F64Div(l.n, r.n))) ELSE undefined
       [] k = "Plus" ->
            IF nums THEN VOk(Number(F64Add(l.n, r.n)))
            ELSE IF strs THEN VOk(Str(l.s \o r.s))
            ELSE undefined
       [] k = "Minus" -> IF nums THEN VOk(Number(F64Sub(l.n, r.n))) ELSE undefined
       [] k = "Greater" ->
            IF nums THEN VOk(Bool(F64Lt(r.n, l.n)))
            ELSE IF strs THEN VOk(Bool(StrLt(r.s, l.s)))
            ELSE undefined
       [] k = "GreaterEqual" ->
            IF nums THEN VOk(Bool(F64Lt(r.n, l.n) \/ F64Eq(l.n, r.n)))
            ELSE IF strs THEN VOk(Bool(~StrLt(l.s, r.s)))
            ELSE undefined
       [] k = "Less" ->
            IF nums THEN VOk(Bool(F64Lt(l.n, r.n)))
            ELSE IF strs THEN VOk(Bool(StrLt(l.s, r.s)))
            ELSE undefined
       [] k = "LessEqual" ->
            IF nums THEN VOk(Bool(F64Lt(l.n, r.n) \/ F64Eq(l.n, r.n)))
            ELSE IF strs THEN VOk(Bool(~StrLt(r.s, l.s)))
            ELSE undefined
       [] k = "EqualEqual" ->
            IF nums THEN VOk(Bool(F64Eq(l.n, r.n)))
            ELSE IF strs THEN VOk(Bool(l.s = r.s))
            ELSE IF l.t = "Bool" /\ r.t = "Bool" THEN VOk(Bool(l.b = r.b))
            ELSE IF l.t = "Nil" /\ r.t = "Nil" THEN VOk(Bool(TRUE))
            ELSE VOk(Bool(FALSE))
       [] k = "BangEqual" ->
            IF nums THEN VOk(Bool(~F64Eq(l.n, r.n)))
            ELSE IF strs THEN VOk(Bool(l.s # r.s))
            ELSE IF l.t = "Bool" /\ r.t = "Bool" THEN VOk(Bool(l.b # r.b))
            ELSE IF l.t = "Nil" /\ r.t = "Nil" THEN VOk(Bool(FALSE))
            ELSE VOk(Bool(TRUE))


(***************************************************************************)
(* The evaluator (src/src/interpreter/mod.rs) as a small-step machine.     *)
(*                                                                         *)
(*   ctl = [m |-> "stmt", node]    eval_stmt(node) has just been called    *)
(*         [m |-> "expr", node]    eval_expr(node) has just been called    *)
(*         [m |-> "value", v]      an eval_expr call returns Ok(v)         *)
(*         [m |-> "signal", sig]   an eval_stmt call returns Ok(sig)       *)
(*         [m |-> "error", err]    a call returns Err(err)                 *)
(*         [m |-> "call", fn, args] LoxFunction::call has just been called *)
(*         [m |-> "panic", msg]    the process panicked                    *)
(*         [m |-> "idle"]          the evaluator is not running            *)
(*                                                                         *)
(* kont is the stack of activations waiting for that call; its last        *)
(* element is the caller.  Every action below is one Rust function: one    *)
(* disjunct for its entry and one for each point where a callee returns    *)
(* into it.                                                                *)
(***************************************************************************)
pipeline == <<source, stage, ran, lexer, tokens, parser, stmts, bindings, result>>

Running == stage = "interpret" /\ steps < MaxSteps
Tick == steps' = steps + 1
Top == Last(kont)

EvalStmt(node) == [m |-> "stmt", node |-> node]
EvalExpr(node) == [m |-> "expr", node |-> node]
OkValue(v) == [m |-> "value", v |-> v]
OkSignal(sig) == [m |-> "signal", sig |-> sig]
ErrRuntime(err) == [m |-> "error", err |-> err]
Panicked(msg) == [m |-> "panic", msg |-> msg]
Idle == [m |-> "idle"]

\* Interpreter::begin_scope: the heap after allocating the new frame; the
\* new frame is the last one
begin_scope(heap, env) == Append(heap, Environment_with_enclosing(env))

\* Interpreter::end_scope with Environment::enclosing
end_scope(heap, env) ==
  IF heap[env].enclosing # 0
  THEN [ok |-> TRUE, env |-> heap[env].enclosing]
  ELSE [ok |-> FALSE, panic |-> "expected enclosing to exist"]

\* the function whose call is the innermost one running (0: none); only the
\* history variable `reads` uses it
current_function ==
  LET calls == {i \in 1..Len(kont) : kont[i].f = "call"}
  IN IF calls = {} THEN 0
     ELSE kont[CHOOSE i \in calls : \A j \in calls : j <= i].fn

eval_print_stmt ==
  /\ Running
  /\ \/ /\ ctl.m = "stmt" /\ ctl.node.k = "PrintStmt"
        /\ kont' = Append(kont, [f |-> "eval_print_stmt"])
        /\ ctl' = EvalExpr(ctl.node.expr)
        /\ UNCHANGED out
     \/ /\ ctl.m = "value" /\ Top.f = "eval_print_stmt"
        /\ out' = Append(out, Display(ctl.v, functions))
        /\ kont' = Front(kont)
        /\ ctl' = OkSignal(SignalNone)
  /\ Tick
  /\ UNCHANGED <<envs, functions, environment, reads, pipeline>>

eval_expr_stmt ==
  /\ Running
  /\ \/ /\ ctl.m = "stmt" /\ ctl.node.k = "ExprStmt"
        /\ kont' = Append(kont, [f |-> "eval_expr_stmt"])
        /\ ctl' = EvalExpr(ctl.node.expr)
     \/ /\ ctl.m = "value" /\ Top.f = "eval_expr_stmt"
        /\ kont' = Front(kont)
        /\ ctl' = OkSignal(SignalNone)
  /\ Tick
  /\ UNCHANGED <<envs, functions, environment, out, reads, pipeline>>

eval_var_decl ==
  /\ Running
  /\ \/ /\ ctl.m = "stmt" /\ ctl.node.k = "VarDecl"
        /\ IF IsSome(ctl.node.expr)
           THEN /\ kont' = Append(kont, [f |-> "eval_var_decl",
                                         variable |-> ctl.node.variable])
                /\ ctl' = EvalExpr(Unwrap(ctl.node.expr))
                /\ UNCHANGED envs
           ELSE /\ envs' = env_declare(envs, environment,
                                       extract_identifier(ctl.node.variable), Nil)
                /\ ctl' = OkSignal(SignalNone)
                /\ UNCHANGED kont
     \/ /\ ctl.m = "value" /\ Top.f = "eval_var_decl"
        /\ envs' = env_declare(envs, environment,
                               extract_identifier(Top.variable), ctl.v)
        /\ kont' = Front(kont)
        /\ ctl' = OkSignal(SignalNone)
  /\ Tick
  /\ UNCHANGED <<functions, environment, out, reads, pipeline>>

\* eval_block as it would be without begin_scope and end_scope
eval_block_unscoped ==
  /\ Running
  /\ \/ /\ ctl.m = "stmt" /\ ctl.node.k = "Block"
        /\ envs' = envs
        /\ IF ctl.node.stmts = <<>>
           THEN \* begin_scope and end_scope with no statement in between
                /\ ctl' = OkSignal(SignalNone)
                /\ UNCHANGED <<kont, environment>>
           ELSE /\ environment' = environment
                /\ kont' = Append(kont, [f |-> "eval_block",
                                         stmts |-> ctl.node.stmts, i |-> 1])
                /\ ctl' = EvalStmt(ctl.node.stmts[1])
     \/ /\ ctl.m = "signal" /\ Top.f = "eval_block"
        /\ IF ctl.sig.s # "None" \/ Top.i = Len(Top.stmts)
           THEN /\ kont' = Front(kont)
                /\ ctl' = OkSignal(ctl.sig)
                /\ UNCHANGED environment
           ELSE /\ kont' = [kont EXCEPT ![Len(kont)].i = @ + 1]
                /\ ctl' = EvalStmt(Top.stmts[Top.i + 1])
                /\ UNCHANGED environment
        /\ UNCHANGED envs
  /\ Tick
  /\ UNCHANGED <<functions, out, reads, pipeline>>

\* eval_block as it would be if it did not look at the signal of a statement
eval_block_ignoring_signal ==
  /\ Running
  /\ \/ /\ ctl.m = "stmt" /\ ctl.node.k = "Block"
        /\ envs' = begin_scope(envs, environment)
        /\ IF ctl.node.stmts = <<>>
           THEN \* begin_scope and end_scope with no statement in between
                /\ ctl' = OkSignal(SignalNone)
                /\ UNCHANGED <<kont, environment>>
           ELSE /\ environment' = Len(envs')
                /\ kont' = Append(kont, [f |-> "eval_block",
                                         stmts |-> ctl.node.stmts, i |-> 1])
                /\ ctl' = EvalStmt(ctl.node.stmts[1])
     \/ /\ ctl.m = "signal" /\ Top.f = "eval_block"
        /\ IF Top.i = Len(Top.stmts)
           THEN LET scope == end_scope(envs, environment)
                IN IF scope.ok
                   THEN /\ environment' = scope.env
                        /\ kont' = Front(kont)
                        /\ ctl' = OkSignal(SignalNone)
                   ELSE /\ ctl' = Panicked(scope.panic)
                        /\ UNCHANGED <<kont, environment>>
           ELSE /\ kont' = [kont EXCEPT ![Len(kont)].i = @ + 1]
                /\ ctl' = EvalStmt(Top.stmts[Top.i + 1])
                /\ UNCHANGED environment
        /\ UNCHANGED envs
  /\ Tick
  /\ UNCHANGED <<functions, out, reads, pipeline>>

eval_block ==
  /\ Running
  /\ \/ /\ ctl.m = "stmt" /\ ctl.node.k = "Block"
        /\ envs' = begin_scope(envs, environment)
        /\ IF ctl.node.stmts = <<>>
           THEN \* begin_scope and end_scope with no statement in between
                /\ ctl' = OkSignal(SignalNone)
                /\ UNCHANGED <<kont, environment>>
           ELSE /\ environment' = Len(envs')
                /\ kont' = Append(kont, [f |-> "eval_block",
                                         stmts |-> ctl.node.stmts, i |-> 1])
                /\ ctl' = EvalStmt(ctl.node.stmts[1])
     \/ /\ ctl.m = "signal" /\ Top.f = "eval_block"
        /\ IF ctl.sig.s # "None" \/ Top.i = Len(Top.stmts)
           THEN LET scope == end_scope(envs, environment)
                IN IF scope.ok
                   THEN /\ environment' = scope.env
                        /\ kont' = Front(kont)
                        /\ ctl' = OkSignal(ctl.sig)
                   ELSE /\ ctl' = Panicked(scope.panic)
                        /\ UNCHANGED <<kont, environment>>
           ELSE /\ kont' = [kont EXCEPT ![Len(kont)].i = @ + 1]
                /\ ctl' = EvalStmt(Top.stmts[Top.i + 1])
                /\ UNCHANGED environment
        /\ UNCHANGED envs
  /\ Tick
  /\ UNCHANGED <<functions, out, reads, pipeline>>

eval_if_stmt ==
  /\ Running
  /\ \/ /\ ctl.m = "stmt" /\ ctl.node.k = "If"
        /\ kont' = Append(kont, [f |-> "eval_if_stmt",
                                 then_stmt |-> ctl.node.then_stmt,
                                 else_stmt |-> ctl.node.else_stmt])
        /\ ctl' = EvalExpr(ctl.node.condition)
     \/ /\ ctl.m = "value" /\ Top.f = "eval_if_stmt"
        /\ kont' = Front(kont)
        /\ ctl' = IF is_truthy(ctl.v) THEN EvalStmt(Top.then_stmt)
                  ELSE IF IsSome(Top.else_stmt) THEN EvalStmt(Unwrap(Top.else_stmt))
                  ELSE OkSignal(SignalNone)
  /\ Tick
  /\ UNCHANGED <<envs, functions, environment, out, reads, pipeline>>

\* eval_while_stmt as it would be if it returned the body's Return signal
eval_while_stmt_propagating ==
  /\ Running
  /\ \/ /\ ctl.m = "stmt" /\ ctl.node.k = "While"
        /\ kont' = Append(kont, [f |-> "eval_while_stmt",
                                 condition |-> ctl.node.condition,
                                 body |-> ctl.node.body])
        /\ ctl' = EvalExpr(ctl.node.condition)
     \/ /\ ctl.m = "value" /\ Top.f = "eval_while_stmt"
        /\ IF is_truthy(ctl.v)
           THEN /\ ctl' = EvalStmt(Top.body)
                /\ UNCHANGED kont
           ELSE /\ kont' = Front(kont)
                /\ ctl' = OkSignal(SignalNone)
     \/ \* the signal of the body is dropped
        /\ ctl.m = "signal" /\ Top.f = "eval_while_stmt"
        /\ IF ctl.sig.s = "Return"
           THEN ctl' = ctl /\ kont' = Front(kont)
           ELSE ctl' = EvalExpr(Top.condition) /\ UNCHANGED kont
  /\ Tick
  /\ UNCHANGED <<envs, functions, environment, out, reads, pipeline>>

eval_while_stmt ==
  /\ Running
  /\ \/ /\ ctl.m = "stmt" /\ ctl.node.k = "While"
        /\ kont' = Append(kont, [f |-> "eval_while_stmt",
                                 condition |-> ctl.node.condition,
                                 body |-> ctl.node.body])
        /\ ctl' = EvalExpr(ctl.node.condition)
     \/ /\ ctl.m = "value" /\ Top.f = "eval_while_stmt"
        /\ IF is_truthy(ctl.v)
           THEN /\ ctl' = EvalStmt(Top.body)
                /\ UNCHANGED kont
           ELSE /\ kont' = Front(kont)
                /\ ctl' = OkSignal(SignalNone)
     \/ \* the signal of the body is dropped
        /\ ctl.m = "signal" /\ Top.f = "eval_while_stmt"
        /\ ctl' = EvalExpr(Top.condition)
        /\ UNCHANGED kont
  /\ Tick
  /\ UNCHANGED <<envs, functions, environment, out, reads, pipeline>>

\* eval_fun_decl as it would be if the function captured a copy of the
\* current frame
eval_fun_decl_copying ==
  /\ Running
  /\ ctl.m = "stmt" /\ ctl.node.k = "FunDecl"
  /\ functions' = Append(functions,
                         LoxFunction_new(ctl.node.name, ctl.node.params,
                                         ctl.node.body, Len(envs) + 1))
  /\ envs' = Append(env_declare(envs, environment,
                                extract_identifier(ctl.node.name),
                                Callable(Len(functions'))),
                    envs[environment])
  /\ ctl' = OkSignal(SignalNone)
  /\ Tick
  /\ UNCHANGED <<environment, out, kont, reads, pipeline>>

eval_fun_decl ==
  /\ Running
  /\ ctl.m = "stmt" /\ ctl.node.k = "FunDecl"
  /\ functions' = Append(functions,
                         LoxFunction_new(ctl.node.name, ctl.node.params,
                                         ctl.node.body, environment))
  /\ envs' = env_declare(envs, environment, extract_identifier(ctl.node.name),
                         Callable(Len(functions')))
  /\ ctl' = OkSignal(SignalNone)
  /\ Tick
  /\ UNCHANGED <<environment, out, kont, reads, pipeline>>

eval_return_stmt ==
  /\ Running
  /\ \/ /\ ctl.m = "stmt" /\ ctl.node.k = "Return"
        /\ kont' = Append(kont, [f |-> "eval_return_stmt"])
        /\ ctl' = EvalExpr(ctl.node.expr)
     \/ /\ ctl.m = "value" /\ Top.f = "eval_return_stmt"
        /\ kont' = Front(kont)
        /\ ctl' = OkSignal(SignalReturn(ctl.v))
  /\ Tick
  /\ UNCHANGED <<envs, functions, environment, out, reads, pipeline>>


\* eval_expr's own arms: a literal is cloned, a grouping evaluates its inner
\* expression and returns what that returns
eval_expr ==
  /\ Running
  /\ ctl.m = "expr"
  /\ \/ /\ ctl.node.k = "Literal"
        /\ ctl' = OkValue(ctl.node.value)
     \/ /\ ctl.node.k = "Grouping"
        /\ ctl' = EvalExpr(ctl.node.expr)
  /\ Tick
  /\ UNCHANGED <<envs, functions, environment, out, kont, reads, pipeline>>

eval_unary_expr ==
  /\ Running
  /\ \/ /\ ctl.m = "expr" /\ ctl.node.k = "Unary"
        /\ kont' = Append(kont, [f |-> "eval_unary_expr", op |-> ctl.node.op])
        /\ ctl' = EvalExpr(ctl.node.right)
     \/ /\ ctl.m = "value" /\ Top.f = "eval_unary_expr"
        /\ kont' = Front(kont)
        /\ LET res == unary_op(Top.op, ctl.v)
           IN ctl' = IF res.ok THEN OkValue(res.v) ELSE ErrRuntime(res.err)
  /\ Tick
  /\ UNCHANGED <<envs, functions, environment, out, reads, pipeline>>

eval_binary_expr ==
  /\ Running
  /\ \/ /\ ctl.m = "expr" /\ ctl.node.k = "Binary"
        /\ kont' = Append(kont, [f |-> "eval_binary_expr", op |-> ctl.node.op,
                                 right |-> ctl.node.right, left_val |-> None])
        /\ ctl' = EvalExpr(ctl.node.left)
     \/ /\ ctl.m = "value" /\ Top.f = "eval_binary_expr" /\ ~IsSome(Top.left_val)
        /\ kont' = [kont EXCEPT ![Len(kont)].left_val = Some(ctl.v)]
        /\ ctl' = EvalExpr(Top.right)
     \/ /\ ctl.m = "value" /\ Top.f = "eval_binary_expr" /\ IsSome(Top.left_val)
        /\ kont' = Front(kont)
        /\ LET res == binary_op(Unwrap(Top.left_val), Top.op, ctl.v)
           IN ctl' = IF res.ok THEN OkValue(res.v) ELSE ErrRuntime(res.err)
  /\ Tick
  /\ UNCHANGED <<envs, functions, environment, out, reads, pipeline>>

\* eval_variable with Interpreter::get
eval_variable ==
  /\ Running
  /\ ctl.m = "expr" /\ ctl.node.k = "Variable"
  /\ LET bound == get_bound_depth(bindings, ctl.node.id)
         got == get_at_depth(envs, environment, bound.depth,
                             extract_identifier(ctl.node.variable))
     IN IF ~bound.ok THEN ctl' = Panicked(bound.panic) /\ UNCHANGED reads
        ELSE IF ~got.ok THEN ctl' = Panicked(got.panic) /\ UNCHANGED reads
        ELSE /\ ctl' = OkValue(got.v)
             /\ reads' = reads \cup {[fn |-> current_function, id |-> ctl.node.id,
                                      frame |-> got.frame]}
  /\ Tick
  /\ UNCHANGED <<envs, functions, environment, out, kont, pipeline>>

\* eval_assignment with Interpreter::assign
eval_assignment ==
  /\ Running
  /\ \/ /\ ctl.m = "expr" /\ ctl.node.k = "Assignment"
        /\ kont' = Append(kont, [f |-> "eval_assignment", id |-> ctl.node.id,
                                 variable |-> ctl.node.variable])
        /\ ctl' = EvalExpr(ctl.node.expr)
        /\ UNCHANGED envs
     \/ /\ ctl.m = "value" /\ Top.f = "eval_assignment"
        /\ LET bound == get_bound_depth(bindings, Top.id)
               assigned == assign_at_depth(envs, environment, bound.depth,
                                           extract_identifier(Top.variable), ctl.v)
           IN IF ~bound.ok
              THEN ctl' = Panicked(bound.panic) /\ UNCHANGED <<envs, kont>>
              ELSE IF ~assigned.ok
              THEN ctl' = Panicked(assigned.panic) /\ UNCHANGED <<envs, kont>>
              ELSE /\ envs' = assigned.heap
                   /\ kont' = Front(kont)
                   /\ ctl' = OkValue(ctl.v)
  /\ Tick
  /\ UNCHANGED <<functions, environment, out, reads, pipeline>>

\* eval_logical_expr as it would be if it returned the deciding operand
eval_logical_expr_operands ==
  /\ Running
  /\ \/ /\ ctl.m = "expr" /\ ctl.node.k = "Logical"
        /\ IF ctl.node.op.kind.k \in {"Or", "And"}
           THEN /\ kont' = Append(kont, [f |-> "eval_logical_expr",
                                         op |-> ctl.node.op,
                                         right |-> ctl.node.right,
                                         at |-> "left"])
                /\ ctl' = EvalExpr(ctl.node.left)
           ELSE /\ ctl' = Panicked("logical node received non-logical token")
                /\ UNCHANGED kont
     \/ /\ ctl.m = "value" /\ Top.f = "eval_logical_expr" /\ Top.at = "left"
        /\ IF Top.op.kind.k = "Or"
           THEN IF is_truthy(ctl.v)
                THEN kont' = Front(kont) /\ ctl' = OkValue(ctl.v)
                ELSE /\ kont' = [kont EXCEPT ![Len(kont)].at = "right"]
                     /\ ctl' = EvalExpr(Top.right)
           ELSE IF is_falsy(ctl.v)
                THEN kont' = Front(kont) /\ ctl' = OkValue(ctl.v)
                ELSE /\ kont' = [kont EXCEPT ![Len(kont)].at = "right"]
                     /\ ctl' = EvalExpr(Top.right)
     \/ /\ ctl.m = "value" /\ Top.f = "eval_logical_expr" /\ Top.at = "right"
        /\ kont' = Front(kont)
        /\ ctl' = OkValue(ctl.v)
  /\ Tick
  /\ UNCHANGED <<envs, functions, environment, out, reads, pipeline>>

eval_logical_expr ==
  /\ Running
  /\ \/ /\ ctl.m = "expr" /\ ctl.node.k = "Logical"
        /\ IF ctl.node.op.kind.k \in {"Or", "And"}
           THEN /\ kont' = Append(kont, [f |-> "eval_logical_expr",
                                         op |-> ctl.node.op,
                                         right |-> ctl.node.right,
                                         at |-> "left"])
                /\ ctl' = EvalExpr(ctl.node.left)
           ELSE /\ ctl' = Panicked("logical node received non-logical token")
                /\ UNCHANGED kont
     \/ /\ ctl.m = "value" /\ Top.f = "eval_logical_expr" /\ Top.at = "left"
        /\ IF Top.op.kind.k = "Or"
           THEN IF is_truthy(ctl.v)
                THEN kont' = Front(kont) /\ ctl' = OkValue(Bool(TRUE))
                ELSE /\ kont' = [kont EXCEPT ![Len(kont)].at = "right"]
                     /\ ctl' = EvalExpr(Top.right)
           ELSE IF is_falsy(ctl.v)
                THEN kont' = Front(kont) /\ ctl' = OkValue(Bool(FALSE))
                ELSE /\ kont' = [kont EXCEPT ![Len(kont)].at = "right"]
                     /\ ctl' = EvalExpr(Top.right)
     \/ /\ ctl.m = "value" /\ Top.f = "eval_logical_expr" /\ Top.at = "right"
        /\ kont' = Front(kont)
        /\ ctl' = OkValue(Bool(is_truthy(ctl.v)))
  /\ Tick
  /\ UNCHANGED <<envs, functions, environment, out, reads, pipeline>>

\* eval_fun_call that evaluates the arguments before it compares the arity
eval_fun_call_args_first ==
  /\ Running
  /\ \/ /\ ctl.m = "expr" /\ ctl.node.k = "FunCall"
        /\ kont' = Append(kont, [f |-> "eval_fun_call", paren |-> ctl.node.paren,
                                 arg_exprs |-> ctl.node.args, at |-> "callee",
                                 callable |-> 0, args |-> <<>>])
        /\ ctl' = EvalExpr(ctl.node.callee)
     \/ /\ ctl.m = "value" /\ Top.f = "eval_fun_call" /\ Top.at = "callee"
        /\ IF ctl.v.t # "Callable"
           THEN /\ kont' = Front(kont)
                /\ ctl' = ErrRuntime(ExpectedCallable(Top.paren))
           ELSE IF Top.arg_exprs # <<>>
           THEN /\ kont' = [kont EXCEPT ![Len(kont)].at = "args",
                                        ![Len(kont)].callable = ctl.v.fn]
                /\ ctl' = EvalExpr(Top.arg_exprs[1])
           ELSE IF arity(functions[ctl.v.fn]) # 0
           THEN /\ kont' = Front(kont)
                /\ ctl' = ErrRuntime(CallableBadArgsCount(Top.paren))
           ELSE /\ kont' = [kont EXCEPT ![Len(kont)].at = "call",
                                        ![Len(kont)].callable = ctl.v.fn]
                /\ ctl' = [m |-> "call", fn |-> ctl.v.fn, args |-> <<>>]
     \/ /\ ctl.m = "value" /\ Top.f = "eval_fun_call" /\ Top.at = "args"
        /\ LET args == Append(Top.args, ctl.v)
           IN IF Len(args) < Len(Top.arg_exprs)
              THEN /\ kont' = [kont EXCEPT ![Len(kont)].args = args]
                   /\ ctl' = EvalExpr(Top.arg_exprs[Len(args) + 1])
              ELSE IF arity(functions[Top.callable]) # Len(args)
              THEN /\ kont' = Front(kont)
                   /\ ctl' = ErrRuntime(CallableBadArgsCount(Top.paren))
              ELSE /\ kont' = [kont EXCEPT ![Len(kont)].args = args,
                                           ![Len(kont)].at = "call"]
                   /\ ctl' = [m |-> "call", fn |-> Top.callable, args |-> args]
     \/ /\ ctl.m = "value" /\ Top.f = "eval_fun_call" /\ Top.at = "call"
        /\ kont' = Front(kont)
        /\ ctl' = ctl
  /\ Tick
  /\ UNCHANGED <<envs, functions, environment, out, reads, pipeline>>

\* eval_fun_call: the callee, the Callable and arity checks, the arguments
\* from left to right, then LoxFunction::call
eval_fun_call ==
  /\ Running
  /\ \/ /\ ctl.m = "expr" /\ ctl.node.k = "FunCall"
        /\ kont' = Append(kont, [f |-> "eval_fun_call", paren |-> ctl.node.paren,
                                 arg_exprs |-> ctl.node.args, at |-> "callee",
                                 callable |-> 0, args |-> <<>>])
        /\ ctl' = EvalExpr(ctl.node.callee)
     \/ /\ ctl.m = "value" /\ Top.f = "eval_fun_call" /\ Top.at = "callee"
        /\ IF ctl.v.t # "Callable"
           THEN /\ kont' = Front(kont)
                /\ ctl' = ErrRuntime(ExpectedCallable(Top.paren))
           ELSE IF arity(functions[ctl.v.fn]) # Len(Top.arg_exprs)
           THEN /\ kont' = Front(kont)
                /\ ctl' = ErrRuntime(CallableBadArgsCount(Top.paren))
           ELSE IF Top.arg_exprs = <<>>
           THEN /\ kont' = [kont EXCEPT ![Len(kont)].at = "call",
                                        ![Len(kont)].callable = ctl.v.fn]
                /\ ctl' = [m |-> "call", fn |-> ctl.v.fn, args |-> <<>>]
           ELSE /\ kont' = [kont EXCEPT ![Len(kont)].at = "args",
                                        ![Len(kont)].callable = ctl.v.fn]
                /\ ctl' = EvalExpr(Top.arg_exprs[1])
     \/ /\ ctl.m = "value" /\ Top.f = "eval_fun_call" /\ Top.at = "args"
        /\ LET args == Append(Top.args, ctl.v)
           IN IF Len(args) < Len(Top.arg_exprs)
              THEN /\ kont' = [kont EXCEPT ![Len(kont)].args = args]
                   /\ ctl' = EvalExpr(Top.arg_exprs[Len(args) + 1])
              ELSE /\ kont' = [kont EXCEPT ![Len(kont)].args = args,
                                           ![Len(kont)].at = "call"]
                   /\ ctl' = [m |-> "call", fn |-> Top.callable, args |-> args]
     \/ \* Ok(callable.call(self, args)?)
        /\ ctl.m = "value" /\ Top.f = "eval_fun_call" /\ Top.at = "call"
        /\ kont' = Front(kont)
        /\ ctl' = ctl
  /\ Tick
  /\ UNCHANGED <<envs, functions, environment, out, reads, pipeline>>

\* LoxFunction::call (src/src/interpreter/callable/fun.rs)
\* LoxFunction::call as it would be if the new frame enclosed the caller's
\* environment
LoxFunction_call_dynamic ==
  /\ Running
  /\ \/ /\ ctl.m = "call"
        /\ LET fn == functions[ctl.fn]
               heap == begin_scope(envs, environment)
           IN /\ envs' = fun_declare_params(heap, Len(heap), fn.params, ctl.args, 1)
              /\ environment' = Len(heap)
              /\ kont' = Append(kont, [f |-> "call", fn |-> ctl.fn,
                                       old |-> environment])
              /\ ctl' = EvalStmt(fn.body)
     \/ /\ ctl.m = "signal" /\ Top.f = "call"
        /\ LET value == IF ctl.sig.s = "Return" THEN ctl.sig.v ELSE Nil
               scope == end_scope(envs, environment)
           IN IF scope.ok
              THEN /\ environment' = Top.old
                   /\ kont' = Front(kont)
                   /\ ctl' = OkValue(value)
              ELSE /\ ctl' = Panicked(scope.panic)
                   /\ UNCHANGED <<kont, environment>>
        /\ UNCHANGED envs
  /\ Tick
  /\ UNCHANGED <<functions, out, reads, pipeline>>

LoxFunction_call ==
  /\ Running
  /\ \/ /\ ctl.m = "call"
        /\ LET fn == functions[ctl.fn]
               heap == begin_scope(envs, fn.environment)
           IN /\ envs' = fun_declare_params(heap, Len(heap), fn.params, ctl.args, 1)
              /\ environment' = Len(heap)
              /\ kont' = Append(kont, [f |-> "call", fn |-> ctl.fn,
                                       old |-> environment])
              /\ ctl' = EvalStmt(fn.body)
     \/ /\ ctl.m = "signal" /\ Top.f = "call"
        /\ LET value == IF ctl.sig.s = "Return" THEN ctl.sig.v ELSE Nil
               scope == end_scope(envs, environment)
           IN IF scope.ok
              THEN /\ environment' = Top.old
                   /\ kont' = Front(kont)
                   /\ ctl' = OkValue(value)
              ELSE /\ ctl' = Panicked(scope.panic)
                   /\ UNCHANGED <<kont, environment>>
        /\ UNCHANGED envs
  /\ Tick
  /\ UNCHANGED <<functions, out, reads, pipeline>>

\* the ? operator: an Err returned into any activation but interpret's is
\* returned by that activation at once
propagate ==
  /\ Running
  /\ ctl.m = "error" /\ Top.f # "interpret"
  /\ kont' = Front(kont)
  /\ ctl' = ctl
  /\ Tick
  /\ UNCHANGED <<envs, functions, environment, out, reads, pipeline>>


(***************************************************************************)
(* run_source_code (src/src/lib.rs).  stage is the stage that is running:  *)
(* "tokenize", "parse", "resolve", "interpret", and "returned" once        *)
(* run_source_code has returned `result`.  The last step of a stage        *)
(* includes the arm of run_source_code that consumes the stage's result.   *)
(***************************************************************************)
MaxParseErrors == 3

LoxError(variant, err) == [variant |-> variant, err |-> err]
ResultOk == [ok |-> TRUE]
ResultErr(errors) == [ok |-> FALSE, errors |-> errors]

evaluator == <<envs, functions, environment, out, ctl, kont, steps, reads>>

\* tokenize without the Eof token pushed after the loop
tokenize_without_eof ==
  /\ stage = "tokenize"
  /\ LET ch == lexer_peek(source, lexer)
         consumed == lexer_consume(source, lexer)
         matched == tokenize_match(source, consumed, ch)
     IN \/ /\ ch = NoChar
           /\ tokens' = tokens
           /\ parser' = Parser_new(tokens')
           /\ stage' = "parse"
           /\ ran' = Append(ran, "parser")
           /\ UNCHANGED <<lexer, result>>
        \/ /\ ch # NoChar /\ ch \in Whitespace
           /\ lexer' = consumed
           /\ UNCHANGED <<tokens, parser, stage, ran, result>>
        \/ /\ ch # NoChar /\ ch \notin Whitespace /\ matched.ok
           /\ lexer' = matched.lx
           /\ tokens' = Append(tokens, Token(matched.lx.line, matched.lx.col,
                                             matched.kind))
           /\ UNCHANGED <<parser, stage, ran, result>>
        \/ /\ ch # NoChar /\ ch \notin Whitespace /\ ~matched.ok
           /\ lexer' = matched.lx
           /\ result' = ResultErr(<<LoxError("LexerError", matched.err)>>)
           /\ stage' = "returned"
           /\ UNCHANGED <<tokens, parser, ran>>
  /\ UNCHANGED <<source, stmts, bindings, evaluator>>

\* tokenize skipping an offending lexeme instead of returning its error
tokenize_skipping ==
  /\ stage = "tokenize"
  /\ LET ch == lexer_peek(source, lexer)
         consumed == lexer_consume(source, lexer)
         matched == tokenize_match(source, consumed, ch)
     IN \/ /\ ch = NoChar
           /\ tokens' = Append(tokens, Token(lexer.line, lexer.col, Kind("Eof")))
           /\ parser' = Parser_new(tokens')
           /\ stage' = "parse"
           /\ ran' = Append(ran, "parser")
           /\ UNCHANGED <<lexer, result>>
        \/ /\ ch # NoChar /\ ch \in Whitespace
           /\ lexer' = consumed
           /\ UNCHANGED <<tokens, parser, stage, ran, result>>
        \/ /\ ch # NoChar /\ ch \notin Whitespace /\ matched.ok
           /\ lexer' = matched.lx
           /\ tokens' = Append(tokens, Token(matched.lx.line, matched.lx.col,
                                             matched.kind))
           /\ UNCHANGED <<parser, stage, ran, result>>
        \/ /\ ch # NoChar /\ ch \notin Whitespace /\ ~matched.ok
           /\ lexer' = matched.lx
           /\ UNCHANGED <<tokens, parser, stage, ran, result>>
  /\ UNCHANGED <<source, stmts, bindings, evaluator>>

\* Lexer::tokenize: one iteration of its loop, or the loop's exit
tokenize ==
  /\ stage = "tokenize"
  /\ LET ch == lexer_peek(source, lexer)
         consumed == lexer_consume(source, lexer)
         matched == tokenize_match(source, consumed, ch)
     IN \/ /\ ch = NoChar
           /\ tokens' = Append(tokens, Token(lexer.line, lexer.col, Kind("Eof")))
           /\ parser' = Parser_new(tokens')
           /\ stage' = "parse"
           /\ ran' = Append(ran, "parser")
           /\ UNCHANGED <<lexer, result>>
        \/ /\ ch # NoChar /\ ch \in Whitespace
           /\ lexer' = consumed
           /\ UNCHANGED <<tokens, parser, stage, ran, result>>
        \/ /\ ch # NoChar /\ ch \notin Whitespace /\ matched.ok
           /\ lexer' = matched.lx
           /\ tokens' = Append(tokens, Token(matched.lx.line, matched.lx.col,
                                             matched.kind))
           /\ UNCHANGED <<parser, stage, ran, result>>
        \/ /\ ch # NoChar /\ ch \notin Whitespace /\ ~matched.ok
           /\ lexer' = matched.lx
           /\ result' = ResultErr(<<LoxError("LexerError", matched.err)>>)
           /\ stage' = "returned"
           /\ UNCHANGED <<tokens, parser, ran>>
  /\ UNCHANGED <<source, stmts, bindings, evaluator>>

\* parse as it would be if run_source_code did not look at the parser's
\* errors
parse_ungated ==
  /\ stage = "parse"
  /\ \/ /\ ~is_at_end(parser)
        /\ Len(parser.errors) < MaxParseErrors
        /\ \E iter \in {parse_iteration([p |-> parser, stmts |-> stmts])} :
             parser' = iter.p /\ stmts' = iter.stmts
        /\ UNCHANGED <<stage, ran, result>>
     \/ /\ is_at_end(parser)
        /\ stage' = "resolve"
        /\ ran' = Append(ran, "resolver")
        /\ UNCHANGED <<parser, stmts, result>>
  /\ UNCHANGED <<source, lexer, tokens, bindings, evaluator>>

\* Parser::parse: one iteration of its loop, or the loop's exit
parse ==
  /\ stage = "parse"
  /\ \/ /\ ~is_at_end(parser)
        /\ Len(parser.errors) < MaxParseErrors
        /\ \E iter \in {parse_iteration([p |-> parser, stmts |-> stmts])} :
             parser' = iter.p /\ stmts' = iter.stmts
        /\ UNCHANGED <<stage, ran, result>>
     \/ /\ is_at_end(parser)
        /\ IF Len(parser.errors) > 0
           THEN /\ result' = ResultErr([i \in 1..Len(parser.errors) |->
                                          LoxError("ParseError", parser.errors[i])])
                /\ stage' = "returned"
                /\ UNCHANGED ran
           ELSE /\ stage' = "resolve"
                /\ ran' = Append(ran, "resolver")
                /\ UNCHANGED result
        /\ UNCHANGED <<parser, stmts>>
  /\ UNCHANGED <<source, lexer, tokens, bindings, evaluator>>

\* the identifier names of the program, in order of first occurrence
RECURSIVE identifier_names(_, _)
identifier_names(toks, seen) ==
  IF toks = <<>> THEN seen
  ELSE LET tok == Head(toks)
       IN IF tok.kind.k = "Identifier"
             /\ \A i \in 1..Len(seen) : seen[i] # tok.kind.s
          THEN identifier_names(Tail(toks), Append(seen, tok.kind.s))
          ELSE identifier_names(Tail(toks), seen)

OrdersOf(names) ==
  {order \in [1..Len(names) -> {names[i] : i \in 1..Len(names)}] :
     \A i, j \in 1..Len(names) : i # j => order[i] # order[j]}

\* The iteration order of a HashMap is unspecified: hash_order is any order
\* of the names.  The order is consulted only to order the errors of failed
\* checks, so when no check fails under one order, that order stands for all.
HashOrders ==
  LET names == identifier_names(tokens, <<>>)
  IN IF resolve(Resolver_new(names), stmts).errors = <<>>
     THEN {names}
     ELSE OrdersOf(names)

\* Resolver::resolve, then Interpreter::new and set_out_writer
Resolve ==
  /\ stage = "resolve"
  /\ \E hash_order \in HashOrders :
     \E resolver \in {resolve(Resolver_new(hash_order), stmts)} :
          IF Len(resolver.errors) > 0
          THEN /\ result' = ResultErr([i \in 1..Len(resolver.errors) |->
                                         LoxError("ResolveError", resolver.errors[i])])
               /\ stage' = "returned"
               /\ UNCHANGED <<ran, bindings, envs, environment, ctl>>
          ELSE /\ bindings' = resolver.bindings
               /\ envs' = <<Environment_new>>
               /\ environment' = 1
               /\ ctl' = [m |-> "interpret"]
               /\ stage' = "interpret"
               /\ ran' = Append(ran, "evaluator")
               /\ UNCHANGED result
  /\ UNCHANGED <<source, lexer, tokens, parser, stmts, functions, out, kont, steps,
                 reads>>

\* Interpreter::interpret, then the match of run_source_code on its result
\* interpret as it would be if it went on with the next statement after an
\* error
interpret_continuing ==
  /\ Running
  /\ \/ /\ \/ ctl.m = "interpret"
           \/ ctl.m \in {"signal", "error"} /\ Top.f = "interpret"
        /\ LET i == IF ctl.m = "interpret" THEN 0 ELSE Top.i
           IN IF i < Len(stmts)
              THEN /\ kont' = <<[f |-> "interpret", i |-> i + 1]>>
                   /\ ctl' = EvalStmt(stmts[i + 1])
                   /\ UNCHANGED <<stage, result>>
              ELSE /\ kont' = <<>>
                   /\ ctl' = Idle
                   /\ result' = ResultOk
                   /\ stage' = "returned"
     \/ /\ ctl.m = "error" /\ Top.f = "interpret" /\ Top.i = Len(stmts)
        /\ kont' = <<>>
        /\ ctl' = Idle
        /\ result' = ResultErr(<<LoxError("RuntimeError", ctl.err)>>)
        /\ stage' = "returned"
  /\ Tick
  /\ UNCHANGED <<source, ran, lexer, tokens, parser, stmts, bindings,
                 envs, functions, environment, out, reads>>

interpret ==
  /\ Running
  /\ \/ /\ \/ ctl.m = "interpret"
           \/ ctl.m = "signal" /\ Top.f = "interpret"
        /\ LET i == IF ctl.m = "interpret" THEN 0 ELSE Top.i
           IN IF i < Len(stmts)
              THEN /\ kont' = <<[f |-> "interpret", i |-> i + 1]>>
                   /\ ctl' = EvalStmt(stmts[i + 1])
                   /\ UNCHANGED <<stage, result>>
              ELSE /\ kont' = <<>>
                   /\ ctl' = Idle
                   /\ result' = ResultOk
                   /\ stage' = "returned"
     \/ /\ ctl.m = "error" /\ Top.f = "interpret"
        /\ kont' = <<>>
        /\ ctl' = Idle
        /\ result' = ResultErr(<<LoxError("RuntimeError", ctl.err)>>)
        /\ stage' = "returned"
  /\ Tick
  /\ UNCHANGED <<source, ran, lexer, tokens, parser, stmts, bindings,
                 envs, functions, environment, out, reads>>

(***************************************************************************)
(* The programs run_source_code is called with: the programs of the        *)
(* repository's tests (src/tests), and programs for the cases the tests    *)
(* leave out.                                                              *)
(***************************************************************************)
closures_bind_properly ==
  "var a = \"global\"; { fun showA() { print a; } showA(); var a = \"local\"; showA(); print a; }"
closures_work ==
  "fun make_adder(a, b) { fun add() { return a + b; } return add; } var adder = make_adder(1, 1); print adder();"
functions_return_values ==
  "fun a() { return \"Hello, World!\"; } print a();"
scoping_works ==
  "var a = 1; { var a = 2; { var a = 3; print a; } print a; } print a;"
var_assignment_works ==
  "var a = 1; print a; a = 2; print a;"
if_statements_work ==
  "fun boolT(t) { if(t) { print \"true\"; } else { print \"false\"; } } boolT(true); boolT(false);"
logic_table ==
  "print true and true; print true and false; print false and true; print false and false; print true or true; print true or false; print false or true; print false or false;"
while_loops_works ==
  "var i = 0; while (i < 2) { print i; i = i + 1; }"
for_loops_works ==
  "for(var i = 0; i < 2; i = i + 1){ print i; }"
errors_on_overshadowing ==
  "var a = 1; print a; var a = 2; print a;"
errors_on_nonexistent ==
  "print a;"
errors_on_unused ==
  "var a;"
errors_on_unassigned ==
  "var a; print a;"
shared_read ==
  "var a = 1; fun f() { print a; } f(); a = 2; f();"
shared_write ==
  "var a = 1; fun f() { a = 2; } f(); print a;"
static_scope ==
  "var a = \"global\"; fun f() { print a; } fun g() { var a = \"local\"; f(); print a; } g();"
call_params ==
  "fun f(a, b) { print a - b; } print f(3, 1);"
depth_in_loop ==
  "var n = 0; fun f() { var i = 0; while (i < 2) { i = i + 1; n = n + i; } } f(); print n;"
recursion ==
  "fun f(n) { if (n > 0) f(n - 1); print n; } f(2);"
return_in_while ==
  "fun f() { var i = 0; while (i < 2) { i = i + 1; return i; print 0; } return 10; } print f();"
return_in_endless_while ==
  "fun f() { while (true) { return 1; } } print f();"
return_nested ==
  "fun f() { { if (true) { { return 1; } print 2; } print 3; } print 4; } print f();"
return_in_else ==
  "fun f(x) { if (x) return 1; else { return 2; } } print f(false); print f(true);"
error_after_output ==
  "print 1; print \"a\" - 1; print 2;"
error_in_call ==
  "fun f() { { print 1; return -\"a\"; } } print f(); print 2;"
not_callable ==
  "var a = 1; print a; a(); print 3;"
bad_args_count ==
  "fun f(a) { return a; } print f(1); print f(1, 2);"
logic_short_circuit ==
  "var a = 0; print 1 or (a = 1); print nil and (a = 2); print a;"
logic_operands ==
  "print nil or 2; print 1 and 2; print nil or nil; print 1 and nil;"
block_assign_outer ==
  "var a = 1; { var b = 2; a = b; print b; } print a;"
unary_ops ==
  "print -1; print !true; print !nil; print -(1 - 3);"
unexpected_char ==
  "print 1; @"
unterminated_string ==
  "print 1; print \"abc"
bad_number ==
  "print 1; print 1.2.3;"
parse_error ==
  "print 1; print (2;"
two_parse_errors ==
  "print 1; var 2; print ; print 3;"
two_unused ==
  "print 1; { var a = 1; var b = 2; }"
call_order ==
  "fun p(a) { print a; return a; } fun f(a, b) { print a - b; } f(p(3), p(1));"
args_unevaluated ==
  "fun p(a) { print a; return a; } p(p(1), p(2)); print 3;"
errors_in_order ==
  "print c; var a = 1; var b = 2;"

Sources == {
  closures_bind_properly, closures_work, functions_return_values,
  scoping_works, var_assignment_works, if_statements_work,
  logic_table, while_loops_works, for_loops_works,
  errors_on_overshadowing, errors_on_nonexistent, errors_on_unused,
  errors_on_unassigned, shared_read, shared_write,
  static_scope, call_params, depth_in_loop,
  recursion, return_in_while, return_in_endless_while,
  return_nested, return_in_else, error_after_output,
  error_in_call, not_callable, bad_args_count,
  logic_short_circuit, logic_operands, block_assign_outer,
  unary_ops, unexpected_char, unterminated_string,
  bad_number, parse_error, two_parse_errors,
  two_unused, call_order, args_unevaluated,
  errors_in_order
}

Init ==
  /\ source \in Sources
  /\ stage = "tokenize"
  /\ ran = <<"lexer">>
  /\ lexer = Lexer_new
  /\ tokens = <<>>
  /\ parser = Parser_new(<<>>)
  /\ stmts = <<>>
  /\ bindings = EmptyMap
  /\ envs = <<>>
  /\ functions = <<>>
  /\ environment = 0
  /\ out = <<>>
  /\ ctl = Idle
  /\ kont = <<>>
  /\ steps = 0
  /\ reads = {}
  /\ result = None

Next ==
  \/ tokenize
  \/ parse
  \/ Resolve
  \/ interpret
  \/ eval_print_stmt
  \/ eval_expr_stmt
  \/ eval_var_decl
  \/ eval_block
  \/ eval_if_stmt
  \/ eval_while_stmt
  \/ eval_fun_decl
  \/ eval_return_stmt
  \/ eval_expr
  \/ eval_unary_expr
  \/ eval_binary_expr
  \/ eval_variable
  \/ eval_assignment
  \/ eval_logical_expr
  \/ eval_fun_call
  \/ LoxFunction_call
  \/ propagate

Spec == Init /\ [][Next]_vars

(***************************************************************************)
(* Properties of the program.                                              *)
(***************************************************************************)
Returned == stage = "returned"

\* an evaluator step has been taken
Stepped == steps' # steps

\* frame is env or one of the frames env's chain of enclosing links reaches
RECURSIVE InChain(_, _, _)
InChain(heap, env, frame) ==
  IF env = 0 THEN FALSE
  ELSE env = frame \/ InChain(heap, heap[env].enclosing, frame)

\* the number of frames of env's chain
RECURSIVE ChainLength(_, _)
ChainLength(heap, env) ==
  IF env = 0 THEN 0 ELSE 1 + ChainLength(heap, heap[env].enclosing)

\* the frame reached from env by walking depth links (0: there is none)
RECURSIVE Walk(_, _, _)
Walk(heap, env, depth) ==
  IF env = 0 \/ depth = 0 THEN env ELSE Walk(heap, heap[env].enclosing, depth - 1)

(***************************************************************************)
(* C1  Static closure binding.  Whenever a variable use of a function      *)
(* body has read a frame of the function's captured chain, every read of   *)
(* that use by a call of that function reads the same frame, also after a  *)
(* variable of the same name was declared in a frame in between; and the   *)
(* closures_bind_properly program prints global, global, local.            *)
(***************************************************************************)
StaticClosureBinding ==
  /\ \A r1, r2 \in reads :
       (/\ r1.fn # 0
        /\ r1.fn = r2.fn
        /\ r1.id = r2.id
        /\ InChain(envs, functions[r1.fn].environment, r1.frame))
       => r2.frame = r1.frame
  /\ (source = closures_bind_properly /\ Returned)
       => (result.ok /\ out = <<"global", "global", "local">>)

\* showA has been called twice, the second time after `a` was declared in the
\* block it is declared in, and has read the global frame
StaticClosureBindingWitness ==
  /\ source = closures_bind_properly
  /\ out = <<"global", "global">>
  /\ "a" \in DOMAIN envs[2].variables
  /\ functions[1].environment = 2
  /\ \E r \in reads : r.fn = 1 /\ r.frame = 1

(***************************************************************************)
(* C2  Closures share their captured frames.  Declaring a function         *)
(* captures the current frame itself and allocates no frame; an            *)
(* assignment updates a frame in place.  So a function called after an     *)
(* enclosing variable was re-assigned reads the new value (shared_read     *)
(* prints 1, 2), and an assignment a function makes to an enclosing        *)
(* variable is seen by the enclosing code after the call (shared_write     *)
(* prints 2).                                                              *)
(***************************************************************************)
ClosuresShareFrames ==
  /\ []((source = shared_read /\ Returned) => (result.ok /\ out = <<"1", "2">>))
  /\ []((source = shared_write /\ Returned) => (result.ok /\ out = <<"2">>))
  /\ []((source = closures_work /\ Returned) => (result.ok /\ out = <<"2">>))
  /\ [][/\ (ctl.m = "stmt" /\ ctl.node.k = "FunDecl" /\ Stepped)
             => /\ Len(functions') = Len(functions) + 1
                /\ functions'[Len(functions')].environment = environment
                /\ Len(envs') = Len(envs)
        /\ (ctl.m = "value" /\ Top.f = "eval_assignment" /\ Stepped)
             => /\ Len(envs') = Len(envs)
                /\ \A fn \in 1..Len(functions) :
                     functions'[fn].environment = functions[fn].environment
       ]_vars

\* f has been called, `a` has been re-assigned in the frame f captured, and f
\* is reading `a` again
ClosuresShareFramesWitness ==
  /\ source = shared_read
  /\ out = <<"1">>
  /\ envs[1].variables["a"] = Number(Rat(2, 1))
  /\ functions[1].environment = 1
  /\ ctl.m = "expr" /\ ctl.node.k = "Variable"
  /\ current_function = 1

(***************************************************************************)
(* C3  Resolver/evaluator depth agreement.  The evaluator only runs        *)
(* programs resolved without a diagnostic.  Whenever it is about to read   *)
(* a Variable node or to assign for an Assignment node, the node's id has  *)
(* a recorded depth d, the chain of the current environment has more than  *)
(* d frames, and the frame d links up holds the name; and none of the      *)
(* panics of get_bound_depth, get_at_depth and assign_at_depth happens.    *)
(***************************************************************************)
DepthPanics ==
  {"expected that reference is resolved", "expected env at depth to exist",
   "expected env at depth to contain reference"}

Resolved(id, variable) ==
  /\ id \in DOMAIN bindings
  /\ bindings[id] >= 0
  /\ ChainLength(envs, environment) > bindings[id]
  /\ extract_identifier(variable)
       \in DOMAIN envs[Walk(envs, environment, bindings[id])].variables

DepthAgreement ==
  /\ ctl.m = "panic" => ctl.msg \notin DepthPanics
  /\ (ctl.m = "expr" /\ ctl.node.k = "Variable")
       => Resolved(ctl.node.id, ctl.node.variable)
  /\ (ctl.m = "value" /\ Top.f = "eval_assignment") => Resolved(Top.id, Top.variable)

\* inside a call inside a loop, a variable three frames up is about to be read
DepthAgreementWitness ==
  /\ ctl.m = "expr" /\ ctl.node.k = "Variable"
  /\ bindings[ctl.node.id] = 3
  /\ current_function # 0
  /\ \E i \in 1..Len(kont) : kont[i].f = "eval_while_stmt"

(***************************************************************************)
(* C4  Stage gating in run_source_code.  The stages run in the order       *)
(* lexer, parser, resolver, evaluator; once the parser has a diagnostic    *)
(* neither the resolver nor the evaluator runs; output is only written     *)
(* when the evaluator runs; a returned error list is not empty, holds      *)
(* diagnostics of one stage only, that stage is the last one that ran,     *)
(* and for a lexer, parser or resolver diagnostic the sink is empty.       *)
(***************************************************************************)
StageOrder == <<"lexer", "parser", "resolver", "evaluator">>

StageOf(variant) ==
  CASE variant = "LexerError" -> 1
    [] variant = "ParseError" -> 2
    [] variant = "ResolveError" -> 3
    [] variant = "RuntimeError" -> 4

StageGating ==
  /\ Len(ran) <= Len(StageOrder)
  /\ ran = SubSeq(StageOrder, 1, Len(ran))
  /\ Len(parser.errors) > 0 => Len(ran) = 2
  /\ out # <<>> => Len(ran) = 4
  /\ (Returned /\ result.ok) => Len(ran) = 4
  /\ (Returned /\ ~result.ok)
       => /\ result.errors # <<>>
          /\ \A i \in DOMAIN result.errors :
               /\ result.errors[i].variant = result.errors[1].variant
               /\ Len(ran) = StageOf(result.errors[i].variant)
          /\ StageOf(result.errors[1].variant) < 4 => out = <<>>

\* the parser has returned two diagnostics for a program whose first statement
\* prints
StageGatingWitness ==
  /\ Returned
  /\ ~result.ok
  /\ Len(result.errors) = 2
  /\ result.errors[1].variant = "ParseError"
  /\ ran = <<"lexer", "parser">>
  /\ Len(stmts) > 0

(***************************************************************************)
(* C5  Function call semantics.  A callee that is a callable of matching   *)
(* arity is called.  The call runs the body with a fresh frame current,    *)
(* whose enclosing frame is the callee's captured environment and whose    *)
(* variables are the parameters, the i-th bound to the i-th argument; it   *)
(* keeps the environment that was current.  When the body returns, the     *)
(* call's value is v for Return(v) and Nil otherwise, and the environment  *)
(* kept is current again.  So static_scope prints global, local,           *)
(* call_params prints 2, nil, and a run that ends without error ends in    *)
(* the global frame.                                                       *)
(***************************************************************************)
ParamNames(fn) == {extract_identifier(fn.params[i]) : i \in 1..Len(fn.params)}

CallSemantics ==
  /\ []((source = static_scope /\ Returned) => (result.ok /\ out = <<"global", "local">>))
  /\ []((source = call_params /\ Returned) => (result.ok /\ out = <<"2", "nil">>))
  /\ []((source = functions_return_values /\ Returned)
          => (result.ok /\ out = <<"Hello, World!">>))
  /\ []((Returned /\ result.ok) => environment = 1)
  /\ [][/\ (/\ ctl.m = "value" /\ Top.f = "eval_fun_call" /\ Top.at = "callee"
            /\ ctl.v.t = "Callable" /\ Stepped)
             => IF Len(functions[ctl.v.fn].params) # Len(Top.arg_exprs)
                THEN ctl'.m = "error"
                ELSE IF Top.arg_exprs = <<>>
                THEN ctl'.m = "call" /\ ctl'.fn = ctl.v.fn
                ELSE ctl' = EvalExpr(Top.arg_exprs[1])
        /\ (ctl.m = "call" /\ Stepped)
             => /\ environment' = Len(envs) + 1
                /\ Len(envs') = Len(envs) + 1
                /\ envs'[environment'].enclosing = functions[ctl.fn].environment
                /\ DOMAIN envs'[environment'].variables = ParamNames(functions[ctl.fn])
                /\ \A i \in 1..Len(ctl.args) :
                     (\A j \in (i + 1)..Len(ctl.args) :
                        functions[ctl.fn].params[j] # functions[ctl.fn].params[i])
                     => envs'[environment'].variables[
                          extract_identifier(functions[ctl.fn].params[i])] = ctl.args[i]
                /\ ctl' = EvalStmt(functions[ctl.fn].body)
                /\ kont'[Len(kont')].old = environment
        /\ (ctl.m = "signal" /\ Top.f = "call" /\ Stepped)
             => /\ ctl'.m = "value"
                /\ ctl'.v = IF ctl.sig.s = "Return" THEN ctl.sig.v ELSE Nil
                /\ environment' = Top.old
                /\ kont' = Front(kont)
       ]_vars

\* the call of f made inside g, where `a` is local, has printed the global `a`
\* and has returned Nil, and g's frame is current again
CallSemanticsWitness ==
  /\ source = static_scope
  /\ out = <<"global">>
  /\ ctl.m = "value" /\ ctl.v.t = "Nil"
  /\ Top.f = "eval_fun_call" /\ Top.at = "call"
  /\ environment # 1
  /\ "a" \in DOMAIN envs[environment].variables

(***************************************************************************)
(* C6  Block scoping.  Entering a block makes a new empty frame, enclosed  *)
(* by the current one, current; a declaration changes the current frame    *)
(* only; leaving the block, normally or with a signal, makes the           *)
(* enclosing frame current again; no step but an assignment changes the    *)
(* value of a variable that exists; and, unless an error is being          *)
(* returned, the current chain is as long as the blocks being executed     *)
(* make it.  So scoping_works prints 3, 2, 1 and block_assign_outer        *)
(* prints 2, 2.                                                            *)
(***************************************************************************)
\* the activations above the innermost call (all of them when there is none)
InnerActivations ==
  LET calls == {i \in 1..Len(kont) : kont[i].f = "call"}
      from == IF calls = {} THEN 1
              ELSE 1 + (CHOOSE i \in calls : \A j \in calls : j <= i)
  IN {i \in from..Len(kont) : kont[i].f = "eval_block"}

ExpectedChainLength ==
  Cardinality(InnerActivations)
    + (IF current_function = 0 THEN 1
       ELSE 1 + ChainLength(envs, functions[current_function].environment))

BlockScoping ==
  /\ []((source = scoping_works /\ Returned) => (result.ok /\ out = <<"3", "2", "1">>))
  /\ []((source = block_assign_outer /\ Returned) => (result.ok /\ out = <<"2", "2">>))
  /\ []((stage = "interpret" /\ ctl.m \in {"stmt", "expr", "value", "signal", "call"})
          => ChainLength(envs, environment) = ExpectedChainLength)
  /\ [][/\ (ctl.m = "stmt" /\ ctl.node.k = "Block" /\ Stepped)
             => /\ envs' = Append(envs, [variables |-> EmptyMap,
                                         enclosing |-> environment])
                /\ environment' = IF ctl.node.stmts = <<>> THEN environment
                                  ELSE Len(envs')
        /\ (/\ \/ ctl.m = "stmt" /\ ctl.node.k = "VarDecl" /\ ~IsSome(ctl.node.expr)
               \/ ctl.m = "value" /\ Top.f = "eval_var_decl"
            /\ Stepped)
             => /\ Len(envs') = Len(envs)
                /\ \A e \in 1..Len(envs) : e # environment => envs'[e] = envs[e]
                /\ environment' = environment
        /\ (ctl.m = "signal" /\ Top.f = "eval_block" /\ Len(kont') < Len(kont))
             => /\ environment' = envs[environment].enclosing
                /\ envs' = envs
        /\ (Stepped /\ ~(ctl.m = "value" /\ Top.f = "eval_assignment"))
             => \A e \in 1..Len(envs) : \A n \in DOMAIN envs[e].variables :
                  envs'[e].variables[n] = envs[e].variables[n]
       ]_vars

\* both blocks of scoping_works have been left and the global `a` is read
BlockScopingWitness ==
  /\ source = scoping_works
  /\ out = <<"3", "2">>
  /\ environment = 1
  /\ Len(envs) = 3
  /\ envs[1].variables["a"] = Number(Rat(1, 1))
  /\ envs[2].variables["a"] = Number(Rat(2, 1))
  /\ envs[3].variables["a"] = Number(Rat(3, 1))
  /\ ctl.m = "value"

(***************************************************************************)
(* C7  While does not propagate Return.  Whatever signal the body of a     *)
(* While returns, Return(v) included, the condition is evaluated next and  *)
(* the loop goes on: the body runs again when the condition is truthy,     *)
(* and otherwise the While returns the signal None.  So return_in_while    *)
(* prints 10, and the call of return_in_endless_while never returns.       *)
(***************************************************************************)
WhileDropsReturn ==
  /\ []((source = return_in_while /\ Returned) => (result.ok /\ out = <<"10">>))
  /\ [](source = return_in_endless_while => (~Returned /\ out = <<>>))
  /\ [][/\ (ctl.m = "signal" /\ Top.f = "eval_while_stmt" /\ Stepped)
             => (ctl' = EvalExpr(Top.condition) /\ kont' = kont)
        /\ (ctl.m = "value" /\ Top.f = "eval_while_stmt" /\ Stepped)
             => IF is_truthy(ctl.v)
                THEN ctl' = EvalStmt(Top.body) /\ kont' = kont
                ELSE ctl' = OkSignal(SignalNone) /\ kont' = Front(kont)
       ]_vars

\* the body of the loop of return_in_while has returned Return(2) to the While
WhileDropsReturnWitness ==
  /\ source = return_in_while
  /\ ctl.m = "signal" /\ ctl.sig.s = "Return"
  /\ ctl.sig.v = Number(Rat(2, 1))
  /\ Top.f = "eval_while_stmt"

(***************************************************************************)
(* C8  Return propagates through blocks and conditionals.  When a          *)
(* statement of a Block returns Return(v), the Block returns Return(v) at  *)
(* once, with its frame popped, and executes no further statement; an If   *)
(* returns what the branch it executes returns.  So return_nested prints   *)
(* only the call's value 1, and return_in_else prints 2, 1.                *)
(***************************************************************************)
ReturnPropagates ==
  /\ []((source = return_nested /\ Returned) => (result.ok /\ out = <<"1">>))
  /\ []((source = return_in_else /\ Returned) => (result.ok /\ out = <<"2", "1">>))
  /\ [][/\ (/\ ctl.m = "signal" /\ ctl.sig.s = "Return" /\ Top.f = "eval_block"
            /\ Stepped)
             => /\ ctl' = ctl
                /\ kont' = Front(kont)
                /\ environment' = envs[environment].enclosing
        /\ (ctl.m = "value" /\ Top.f = "eval_if_stmt" /\ Stepped)
             => /\ kont' = Front(kont)
                /\ ctl' = IF is_truthy(ctl.v) THEN EvalStmt(Top.then_stmt)
                          ELSE IF Top.else_stmt # None
                          THEN EvalStmt(Top.else_stmt[1])
                          ELSE OkSignal(SignalNone)
       ]_vars

\* Return(1) is being returned by the innermost of the three nested blocks of
\* return_nested, which has statements left
ReturnPropagatesWitness ==
  /\ source = return_nested
  /\ ctl.m = "signal" /\ ctl.sig.s = "Return"
  /\ Top.f = "eval_block"
  /\ Cardinality(InnerActivations) = 3
  /\ Top.i < Len(Top.stmts)

(***************************************************************************)
(* C9  The first runtime error aborts evaluation.  While an error is       *)
(* being returned nothing is written and no frame changes: it is returned  *)
(* by one activation after the other, and run_source_code returns it as    *)
(* the only error; the sink keeps what was written before.                 *)
(***************************************************************************)
RuntimeErrorKind ==
  IF Returned /\ ~result.ok /\ result.errors[1].variant = "RuntimeError"
  THEN result.errors[1].err.k
  ELSE "none"

FirstErrorAborts ==
  /\ []((source = error_after_output /\ Returned)
          => (out = <<"1">> /\ RuntimeErrorKind = "UndefinedOpBetween"))
  /\ []((source = error_in_call /\ Returned)
          => (out = <<"1">> /\ RuntimeErrorKind = "ExpectedNumber"))
  /\ []((source = not_callable /\ Returned)
          => (out = <<"1">> /\ RuntimeErrorKind = "ExpectedCallable"))
  /\ []((source = bad_args_count /\ Returned)
          => (out = <<"1">> /\ RuntimeErrorKind = "CallableBadArgsCount"))
  /\ [](RuntimeErrorKind # "none" => Len(result.errors) = 1)
  /\ [][(ctl.m = "error" /\ Stepped)
          => /\ out' = out
             /\ envs' = envs
             /\ \/ ctl' = ctl /\ kont' = Front(kont)
                \/ /\ stage' = "returned"
                   /\ result' = ResultErr(<<LoxError("RuntimeError", ctl.err)>>)
       ]_vars

\* the error of the unary minus, raised three activations deep in a call
\* after 1 was printed, has been returned by run_source_code
FirstErrorAbortsWitness ==
  /\ source = error_in_call
  /\ Returned
  /\ out = <<"1">>
  /\ RuntimeErrorKind = "ExpectedNumber"
  /\ environment # 1

(***************************************************************************)
(* C10  Logical operators.  The left operand is evaluated first.  For      *)
(* `or`, a truthy left operand makes the value Bool(true) and the right    *)
(* operand is not evaluated; for `and`, a falsy left operand makes the     *)
(* value Bool(false) and the right operand is not evaluated; otherwise     *)
(* the right operand is evaluated and the value is Bool(is_truthy(right)). *)
(***************************************************************************)
LogicalOperators ==
  /\ []((source = logic_table /\ Returned)
          => (result.ok /\ out = <<"true", "false", "false", "false",
                                   "true", "true", "true", "false">>))
  /\ []((source = logic_short_circuit /\ Returned)
          => (result.ok /\ out = <<"true", "false", "0">>))
  /\ []((source = logic_operands /\ Returned)
          => (result.ok /\ out = <<"true", "true", "false", "false">>))
  /\ [][/\ (ctl.m = "expr" /\ ctl.node.k = "Logical" /\ Stepped)
             => ctl' = EvalExpr(ctl.node.left)
        /\ (/\ ctl.m = "value" /\ Top.f = "eval_logical_expr" /\ Top.at = "left"
            /\ Stepped)
             => CASE Top.op.kind.k = "Or" /\ is_truthy(ctl.v) ->
                       ctl' = OkValue(Bool(TRUE)) /\ kont' = Front(kont)
                  [] Top.op.kind.k = "And" /\ is_falsy(ctl.v) ->
                       ctl' = OkValue(Bool(FALSE)) /\ kont' = Front(kont)
                  [] OTHER -> ctl' = EvalExpr(Top.right)
        /\ (/\ ctl.m = "value" /\ Top.f = "eval_logical_expr" /\ Top.at = "right"
            /\ Stepped)
             => ctl' = OkValue(Bool(is_truthy(ctl.v))) /\ kont' = Front(kont)
       ]_vars

\* `1 or (a = 1)` and `nil and (a = 2)` have been printed and `a` is still 0
LogicalOperatorsWitness ==
  /\ source = logic_short_circuit
  /\ out = <<"true", "false">>
  /\ envs[1].variables["a"] = Number(Rat(0, 1))
  /\ ctl.m = "expr" /\ ctl.node.k = "Variable"

(***************************************************************************)
(* The operators on every pair of values.  Programs reach few pairs of     *)
(* operand values, so a second specification starts the evaluator where    *)
(* eval_stmt is called on the statement `print x <op> y;` or               *)
(* `print <op> x;` of a program whose globals x and y hold any two values  *)
(* of Operands and whose globals f and g are functions; from there the     *)
(* evaluator's own actions run.  The lexer's and the parser's variables    *)
(* play no part and hold their initial values.                             *)
(***************************************************************************)
OperandFunctions ==
  <<LoxFunction_new(Token(1, 1, KindIdentifier("f")), <<>>, Block(<<>>), 1),
    LoxFunction_new(Token(1, 1, KindIdentifier("g")), <<>>, Block(<<>>), 1)>>

\* finite and special numbers, strings, booleans, nil and two callables
Operands ==
  {Number(Rat(0, 1)), Number(Rat(1, 1)), Number(Rat(3, 2)), Number(Rat(-2, 1)),
   Number(Rat(1, 0)), Number(Rat(0, 0)),
   Str(""), Str("a"), Str("ab"), Str("b"),
   Bool(TRUE), Bool(FALSE), Nil, Callable(1), Callable(2)}

BinaryOperators ==
  {"Star", "Slash", "Plus", "Minus", "Greater", "GreaterEqual", "Less",
   "LessEqual", "EqualEqual", "BangEqual"}

UnaryOperators == {"Minus", "Bang"}

OperandX == Variable(1, Token(1, 1, KindIdentifier("x")))
OperandY == Variable(2, Token(1, 1, KindIdentifier("y")))

OperatorStatements ==
  {PrintStmt(Binary(OperandX, Token(1, 1, Kind(op)), OperandY)) : op \in BinaryOperators}
    \cup {PrintStmt(Unary(Token(1, 1, Kind(op)), OperandX)) : op \in UnaryOperators}

InitOperators ==
  /\ source = ""
  /\ stage = "interpret"
  /\ ran = <<"lexer", "parser", "resolver", "evaluator">>
  /\ lexer = Lexer_new
  /\ tokens = <<>>
  /\ parser = Parser_new(<<>>)
  /\ stmts \in {<<stmt>> : stmt \in OperatorStatements}
  /\ bindings = MapInsert(MapInsert(EmptyMap, 1, 0), 2, 0)
  /\ \E x, y \in Operands :
       envs = <<[variables |-> [n \in {"f", "g", "x", "y"} |->
                                  CASE n = "f" -> Callable(1)
                                    [] n = "g" -> Callable(2)
                                    [] n = "x" -> x
                                    [] n = "y" -> y],
                 enclosing |-> 0]>>
  /\ functions = OperandFunctions
  /\ environment = 1
  /\ out = <<>>
  /\ ctl = EvalStmt(stmts[1])
  /\ kont = <<[f |-> "interpret", i |-> 1]>>
  /\ steps = 0
  /\ reads = {}
  /\ result = None

NextOperators ==
  \/ interpret
  \/ eval_print_stmt
  \/ eval_unary_expr
  \/ eval_binary_expr
  \/ eval_variable
  \/ propagate

SpecOperators == InitOperators /\ [][NextOperators]_vars

\* the values of the operands of the statement being evaluated
OperandValueX == envs[1].variables["x"]
OperandValueY == envs[1].variables["y"]

\* the step of eval_binary_expr that matches on the two operand values
BinaryApplied ==
  /\ ctl.m = "value" /\ Top.f = "eval_binary_expr" /\ IsSome(Top.left_val)
  /\ Stepped

ArithmeticOperators == {"Star", "Slash", "Minus"}
ComparisonOperators == {"Greater", "GreaterEqual", "Less", "LessEqual"}
BothNumbers(l, r) == l.t = "Number" /\ r.t = "Number"
BothStrings(l, r) == l.t = "Str" /\ r.t = "Str"

\* C11: `*`, `/` and `-` succeed only on two Numbers; `+` only on two
\* Numbers and on two Strs, which it concatenates left then right; `>`,
\* `>=`, `<` and `<=` only on two Numbers and on two Strs, yielding a Bool;
\* every other combination yields UndefinedOpBetween of the two values and
\* the operator, and that error arises nowhere but at the step that holds
\* both operand values, the left one evaluated before the right one.
BinaryOperatorTyping ==
  /\ [][BinaryApplied =>
          LET l == Unwrap(Top.left_val)
              r == ctl.v
              k == Top.op.kind.k
              undefined == ctl' = ErrRuntime(UndefinedOpBetween(l, Top.op, r))
          IN /\ l = OperandValueX /\ r = OperandValueY
             /\ k \in ArithmeticOperators =>
                  IF BothNumbers(l, r) THEN ctl'.m = "value" /\ ctl'.v.t = "Number"
                  ELSE undefined
             /\ k = "Plus" =>
                  IF BothNumbers(l, r) THEN ctl'.m = "value" /\ ctl'.v.t = "Number"
                  ELSE IF BothStrings(l, r) THEN ctl' = OkValue(Str(l.s \o r.s))
                  ELSE undefined
             /\ k \in ComparisonOperators =>
                  IF BothNumbers(l, r) \/ BothStrings(l, r)
                  THEN ctl'.m = "value" /\ ctl'.v.t = "Bool"
                  ELSE undefined]_vars
  /\ [][(ctl'.m = "error" /\ ctl.m # "error" /\ ctl'.err.k = "UndefinedOpBetween")
          => BinaryApplied]_vars
  /\ [][(ctl.m = "expr" /\ ctl.node = OperandY /\ Stepped) =>
          Top.f = "eval_binary_expr" /\ Top.left_val = Some(OperandValueX)]_vars

\* `"a" + 1` has failed with UndefinedOpBetween and nothing was printed
BinaryOperatorTypingWitness ==
  /\ stage = "returned"
  /\ ~result.ok
  /\ result.errors[1].variant = "RuntimeError"
  /\ result.errors[1].err =
       UndefinedOpBetween(Str("a"), Token(1, 1, Kind("Plus")), Number(Rat(1, 1)))
  /\ out = <<>>


\* equality of two values as `==` decides it
ValuesEqual(l, r) ==
  CASE l.t = "Number" /\ r.t = "Number" -> F64Eq(l.n, r.n)
    [] l.t = "Str" /\ r.t = "Str" -> l.s = r.s
    [] l.t = "Bool" /\ r.t = "Bool" -> l.b = r.b
    [] l.t = "Nil" /\ r.t = "Nil" -> TRUE
    [] OTHER -> FALSE

\* C12: `==` and `!=` never fail: for every pair of values they yield a
\* Bool; two Numbers, two Strs and two Bools compare by value, nil equals
\* nil, every other pair (values of different kinds, or any pair with a
\* Callable, a callable and itself included) is unequal, and `!=` yields
\* the negation of what `==` yields.
EqualityNeverFails ==
  /\ [][(BinaryApplied /\ Top.op.kind.k = "EqualEqual") =>
          ctl' = OkValue(Bool(ValuesEqual(Unwrap(Top.left_val), ctl.v)))]_vars
  /\ [][(BinaryApplied /\ Top.op.kind.k = "BangEqual") =>
          ctl' = OkValue(Bool(~ValuesEqual(Unwrap(Top.left_val), ctl.v)))]_vars
  /\ [](\A l, r \in {OperandValueX, OperandValueY} :
          LET eq == binary_op(l, Token(1, 1, Kind("EqualEqual")), r)
              ne == binary_op(l, Token(1, 1, Kind("BangEqual")), r)
          IN /\ eq.ok /\ ne.ok
             /\ eq.v.t = "Bool" /\ ne.v.t = "Bool"
             /\ ne.v.b = ~eq.v.b
             /\ (l.t = "Callable" \/ r.t = "Callable" \/ l.t # r.t) => ~eq.v.b)

\* a function compared with itself by `==` has printed false
EqualityNeverFailsWitness ==
  /\ stage = "returned"
  /\ result.ok
  /\ stmts[1].expr.k = "Binary" /\ stmts[1].expr.op.kind.k = "EqualEqual"
  /\ OperandValueX = Callable(1) /\ OperandValueY = Callable(1)
  /\ out = <<"false">>


\* the step of eval_unary_expr that matches on the operand's value
UnaryApplied ==
  /\ ctl.m = "value" /\ Top.f = "eval_unary_expr"
  /\ Stepped

\* truthiness as the language defines it
Truthy(v) ==
  CASE v.t = "Bool" -> v.b
    [] v.t = "Nil" -> FALSE
    [] v.t = "Number" -> v.n # Rat(0, 1)
    [] v.t = "Str" -> v.s # ""
    [] v.t = "Callable" -> TRUE

\* C13: truthiness is total: a Bool is truthy iff it is true, nil is
\* falsy, a Number is truthy iff it is not zero, a Str iff it is not empty,
\* a Callable always; is_falsy is the negation of is_truthy; unary `!`
\* yields Bool(is_falsy(v)) for every value v, and unary `-` on any value
\* but a Number yields ExpectedNumber.
TruthinessTotal ==
  /\ [](\A v \in {OperandValueX, OperandValueY} :
          /\ is_truthy(v) \in BOOLEAN
          /\ is_truthy(v) = Truthy(v)
          /\ is_falsy(v) = ~is_truthy(v))
  /\ [][(UnaryApplied /\ Top.op.kind.k = "Bang") =>
          ctl' = OkValue(Bool(~Truthy(ctl.v)))]_vars
  /\ [][(UnaryApplied /\ Top.op.kind.k = "Minus") =>
          IF ctl.v.t = "Number" THEN ctl'.m = "value" /\ ctl'.v.t = "Number"
          ELSE ctl' = ErrRuntime(ExpectedNumber(Top.op))]_vars

\* `!0` has printed true
TruthinessTotalWitness ==
  /\ stage = "returned"
  /\ result.ok
  /\ stmts[1].expr.k = "Unary" /\ stmts[1].expr.op.kind.k = "Bang"
  /\ OperandValueX = Number(Rat(0, 1))
  /\ out = <<"true">>


(***************************************************************************)
(* The lexer on every source.  A third specification runs tokenize on      *)
(* every string of at most MaxSourceLen characters of an alphabet with a   *)
(* digit, the dot, the quote, a letter, a blank, `=` and a character that  *)
(* starts no token.                                                        *)
(***************************************************************************)
MaxSourceLen == 4

LexerAlphabet == {"1", ".", "\"", "a", " ", "=", "@"}

RECURSIVE SourcesUpTo(_)
SourcesUpTo(n) ==
  IF n = 0 THEN {""}
  ELSE LET shorter == SourcesUpTo(n - 1)
       IN shorter \cup {s \o c : s \in shorter, c \in LexerAlphabet}

InitLexer ==
  /\ source \in SourcesUpTo(MaxSourceLen)
  /\ stage = "tokenize"
  /\ ran = <<"lexer">>
  /\ lexer = Lexer_new
  /\ tokens = <<>>
  /\ parser = Parser_new(<<>>)
  /\ stmts = <<>>
  /\ bindings = EmptyMap
  /\ envs = <<>>
  /\ functions = <<>>
  /\ environment = 0
  /\ out = <<>>
  /\ ctl = Idle
  /\ kont = <<>>
  /\ steps = 0
  /\ reads = {}
  /\ result = None

NextLexer == tokenize

SpecLexer == InitLexer /\ [][NextLexer]_vars

\* tokenize has returned Ok(tokens) and run_source_code has built the parser
Lexed == stage = "parse"

\* C14: for every source that lexes without error the token list is not
\* empty, its last element is Eof and no other element is Eof, so
\* Parser::new does not panic on it.
TokensEndWithEof ==
  Lexed =>
    /\ tokens # <<>>
    /\ tokens[Len(tokens)].kind.k = "Eof"
    /\ \A i \in 1..(Len(tokens) - 1) : tokens[i].kind.k # "Eof"
    /\ ~Parser_new_panics(tokens)
    /\ parser.tokens = tokens

\* `a=1.` was lexed into three tokens and Eof
TokensEndWithEofWitness ==
  /\ Lexed
  /\ source = "a=1."
  /\ Len(tokens) = 4
  /\ tokens[3].kind = KindNumber(Rat(1, 1))


\* the number of quotes among the first n characters of src
RECURSIVE QuotesIn(_, _)
QuotesIn(src, n) ==
  IF n = 0 THEN 0
  ELSE QuotesIn(src, n - 1) + (IF SubSeq(src, n, n) = "\"" THEN 1 ELSE 0)

RECURSIVE DotsIn(_)
DotsIn(s) ==
  IF s = "" THEN 0
  ELSE DotsIn(SubSeq(s, 2, Len(s))) + (IF SubSeq(s, 1, 1) = "." THEN 1 ELSE 0)

IsDigitOrDot(ch) == ch \in AsciiDigits \/ ch = "."

\* tokenize has returned Err
LexerFailed == stage = "returned" /\ ~result.ok /\ result.errors[1].variant = "LexerError"

\* the step of tokenize that meets an offending lexeme
LexemeRefused ==
  /\ stage = "tokenize"
  /\ lexer_peek(source, lexer) \notin Whitespace \cup {NoChar}
  /\ ~tokenize_match(source, lexer_consume(source, lexer), lexer_peek(source, lexer)).ok

ChildNodes(n) ==
  CASE n.k \in {"Unary"} -> <<n.right>>
    [] n.k \in {"Binary", "Logical"} -> <<n.left, n.right>>
    [] n.k \in {"Grouping", "Assignment", "ExprStmt", "PrintStmt", "Return"} -> <<n.expr>>
    [] n.k \in {"Literal", "Variable"} -> <<>>
    [] n.k = "FunCall" -> <<n.callee>> \o n.args
    [] n.k = "VarDecl" -> n.expr
    [] n.k = "Block" -> n.stmts
    [] n.k = "If" -> <<n.condition, n.then_stmt>> \o n.else_stmt
    [] n.k = "While" -> <<n.condition, n.body>>
    [] n.k = "FunDecl" -> <<n.body>>

\* the ids of the Variable and Assignment nodes below the nodes of a list,
\* one element per node
RECURSIVE NodeIds(_)
NodeIds(nodes) ==
  IF nodes = <<>> THEN <<>>
  ELSE LET n == Head(nodes)
           rest == NodeIds(ChildNodes(n) \o Tail(nodes))
       IN IF n.k \in {"Variable", "Assignment"} THEN <<n.id>> \o rest ELSE rest

\* C16: within one parse every Variable and Assignment node of the AST
\* carries a positive id drawn from a counter that only increases, and no
\* id is on two nodes of the AST (an Assignment carries the id of the
\* Variable node it replaced).
UniqueVariableIds ==
  /\ [](LET ids == NodeIds(stmts)
        IN /\ \A i \in DOMAIN ids : ids[i] > 0 /\ ids[i] <= parser.curr_var_id
           /\ \A i, j \in DOMAIN ids : ids[i] = ids[j] => i = j)
  /\ [][parser'.curr_var_id >= parser.curr_var_id]_vars

\* a parsed program with an assignment whose target was not the first
\* variable node and with at least three variable nodes
UniqueVariableIdsWitness ==
  /\ stage = "resolve"
  /\ Len(NodeIds(stmts)) >= 3
  /\ \E i \in DOMAIN stmts :
       /\ stmts[i].k = "ExprStmt"
       /\ stmts[i].expr.k = "Assignment"
       /\ stmts[i].expr.id > 1


(***************************************************************************)
(* The parser on every token list.  A fourth specification starts where    *)
(* run_source_code has built the parser, on every list of at most          *)
(* MaxTokens tokens of TokenAlphabet and on every list of at most          *)
(* MaxCallTokens tokens of CallAlphabet with at most MaxParens opening      *)
(* parentheses, each followed by Eof as tokenize leaves it; the i-th token *)
(* is given column i.                                                      *)
(***************************************************************************)
MaxTokens == 4
MaxCallTokens == 6
MaxParens == 2

TokenAlphabet ==
  {Kind("Class"), Kind("Print"), Kind("Var"), Kind("Semicolon"), Kind("Equal"),
   Kind("LeftBrace"), Kind("RightBrace"), KindNumber(Rat(1, 1)), KindIdentifier("a")}

CallAlphabet ==
  {KindIdentifier("f"), Kind("LeftParen"), Kind("RightParen"), Kind("Semicolon")}

RECURSIVE KindLists(_, _)
KindLists(alphabet, n) ==
  IF n = 0 THEN {<<>>}
  ELSE LET shorter == KindLists(alphabet, n - 1)
       IN shorter \cup {Append(ks, k) : ks \in shorter, k \in alphabet}

TokensOf(kinds) ==
  [i \in 1..(Len(kinds) + 1) |->
     Token(1, i, IF i <= Len(kinds) THEN kinds[i] ELSE Kind("Eof"))]

Parens(kinds) == Cardinality({i \in DOMAIN kinds : kinds[i] = Kind("LeftParen")})

\* the clauses and bodies of the `for` statements the parser is run on: no
\* initializer, `var a;`, `a;`; no condition, `a`; no increment, `a = 1`;
\* the bodies `print a;`, `{}` and `;` (which is refused)
ForInitializers ==
  {<<Kind("Semicolon")>>,
   <<Kind("Var"), KindIdentifier("a"), Kind("Semicolon")>>,
   <<KindIdentifier("a"), Kind("Semicolon")>>}

ForConditions == {<<>>, <<KindIdentifier("a")>>}

ForIncrements == {<<>>, <<KindIdentifier("a"), Kind("Equal"), KindNumber(Rat(1, 1))>>}

ForBodies ==
  {<<Kind("Print"), KindIdentifier("a"), Kind("Semicolon")>>,
   <<Kind("LeftBrace"), Kind("RightBrace")>>,
   <<Kind("Semicolon")>>}

\* for ( initializer condition ; increment ) body
ForKindLists ==
  {<<Kind("For"), Kind("LeftParen")>> \o initializer \o condition
     \o <<Kind("Semicolon")>> \o increment \o <<Kind("RightParen")>> \o body :
     initializer \in ForInitializers, condition \in ForConditions,
     increment \in ForIncrements, body \in ForBodies}

\* the token lists the parser is run on
TokenLists(max_tokens, max_call_tokens) ==
  {TokensOf(kinds) :
     kinds \in KindLists(TokenAlphabet, max_tokens)
                \cup {ks \in KindLists(CallAlphabet, max_call_tokens) :
                        Parens(ks) <= MaxParens}
                \cup ForKindLists}

InitParser ==
  /\ source = ""
  /\ stage = "parse"
  /\ ran = <<"lexer", "parser">>
  /\ lexer = Lexer_new
  /\ tokens \in TokenLists(MaxTokens, MaxCallTokens)
  /\ parser = Parser_new(tokens)
  /\ stmts = <<>>
  /\ bindings = EmptyMap
  /\ envs = <<>>
  /\ functions = <<>>
  /\ environment = 0
  /\ out = <<>>
  /\ ctl = Idle
  /\ kont = <<>>
  /\ steps = 0
  /\ reads = {}
  /\ result = None

NextParser == parse

SpecParser == InitParser /\ [][NextParser]_vars

\* one iteration of the loop of Parser::parse
ParseIteration == stage = "parse" /\ ~is_at_end(parser) /\ parser' # parser

\* C17: Parser::parse runs to completion on every token list ending in
\* Eof: every iteration of its top-level loop consumes at least one token
\* or leaves the cursor at Eof, also when the token a declaration fails on
\* is itself a synchronization keyword.
ParseMakesProgress ==
  [][ParseIteration => parser'.pos > parser.pos \/ is_at_end(parser')]_vars


\* the nodes of the AST at and below the nodes of a list
RECURSIVE Nodes(_)
Nodes(nodes) ==
  IF nodes = <<>> THEN {}
  ELSE {Head(nodes)} \cup Nodes(ChildNodes(Head(nodes)) \o Tail(nodes))

\* the declaration at the cursor starts with a call followed by a second
\* argument list: identifier ( ) (
CallOfCallAhead ==
  /\ parser.pos + 4 <= Len(parser.tokens)
  /\ parser.tokens[parser.pos + 1].kind.k = "Identifier"
  /\ parser.tokens[parser.pos + 2].kind.k = "LeftParen"
  /\ parser.tokens[parser.pos + 3].kind.k = "RightParen"
  /\ parser.tokens[parser.pos + 4].kind.k = "LeftParen"

\* C18: a call expression takes at most one argument list: no FunCall node
\* has a FunCall as its callee, and a statement that starts with `f()(`
\* gives no statement but a parse error, at the second opening parenthesis,
\* where the semicolon was expected.
SingleArgumentList ==
  /\ [](\A n \in Nodes(stmts) : n.k = "FunCall" => n.callee.k # "FunCall")
  /\ [][(ParseIteration /\ CallOfCallAhead) =>
          /\ stmts' = stmts
          /\ Len(parser'.errors) = Len(parser.errors) + 1
          /\ parser'.errors[Len(parser'.errors)] =
               ParseError_at(parser.tokens[parser.pos + 4], Expected(";"))]_vars

\* `f()();` was refused with one parse error and no statement
SingleArgumentListWitness ==
  /\ stage = "returned"
  /\ [i \in DOMAIN tokens |-> tokens[i].kind.k] =
       <<"Identifier", "LeftParen", "RightParen", "LeftParen", "RightParen",
         "Semicolon", "Eof">>
  /\ stmts = <<>>
  /\ Len(result.errors) = 1
  /\ result.errors[1].variant = "ParseError"


(***************************************************************************)
(* The resolver on every program made of at most MaxPhrases phrases: a     *)
(* fifth specification starts where run_source_code has built the parser   *)
(* on the tokens of the phrases and runs the parser and the resolver.      *)
(***************************************************************************)
MaxPhrases == 4

IdentA == KindIdentifier("a")
IdentB == KindIdentifier("b")
One == KindNumber(Rat(1, 1))

Phrases ==
  {<<Kind("Var"), IdentA, Kind("Semicolon")>>,
   <<Kind("Var"), IdentA, Kind("Equal"), One, Kind("Semicolon")>>,
   <<Kind("Var"), IdentA, Kind("Equal"), IdentA, Kind("Semicolon")>>,
   <<IdentA, Kind("Equal"), One, Kind("Semicolon")>>,
   <<Kind("Print"), IdentA, Kind("Semicolon")>>,
   <<Kind("Print"), IdentB, Kind("Semicolon")>>,
   <<Kind("LeftBrace")>>,
   <<Kind("RightBrace")>>,
   <<Kind("Fun"), IdentA, Kind("LeftParen"), Kind("RightParen"),
     Kind("LeftBrace"), Kind("RightBrace")>>,
   <<Kind("Fun"), KindIdentifier("f"), Kind("LeftParen"), IdentA, Kind("Comma"), IdentA,
     Kind("RightParen"), Kind("LeftBrace"), Kind("RightBrace")>>}

RECURSIVE PhraseLists(_)
PhraseLists(n) ==
  IF n = 0 THEN {<<>>}
  ELSE LET shorter == PhraseLists(n - 1)
       IN shorter \cup {ks \o phrase : ks \in shorter, phrase \in Phrases}

InitResolver ==
  /\ source = ""
  /\ stage = "parse"
  /\ ran = <<"lexer", "parser">>
  /\ lexer = Lexer_new
  /\ tokens \in {TokensOf(kinds) : kinds \in PhraseLists(MaxPhrases)}
  /\ parser = Parser_new(tokens)
  /\ stmts = <<>>
  /\ bindings = EmptyMap
  /\ envs = <<>>
  /\ functions = <<>>
  /\ environment = 0
  /\ out = <<>>
  /\ ctl = Idle
  /\ kont = <<>>
  /\ steps = 0
  /\ reads = {}
  /\ result = None

NextResolver == parse \/ Resolve

SpecResolver == InitResolver /\ [][NextResolver]_vars

\* the resolver as the loop of Resolver::resolve leaves it, before the
\* global scope is closed
ResolverAfterLoop ==
  resolve_loop(resolver_begin_scope(Resolver_new(identifier_names(tokens, <<>>))), stmts)

\* run_source_code has returned the resolver's errors
ResolverFailed ==
  stage = "returned" /\ ~result.ok /\ result.errors[1].variant = "ResolveError"

ResolveErrors == {result.errors[i].err : i \in DOMAIN result.errors}

\* the declarations tried on the resolver
DeclaredTokens == {Token(9, 9, KindIdentifier(n)) : n \in {"a", "b", "f"}}

\* a `var` statement whose initializer, if it has one, is a literal
PlainVarDecl(stmt) ==
  /\ stmt.k = "VarDecl"
  /\ IsSome(stmt.expr) => Unwrap(stmt.expr).k = "Literal"

\* C19: declaring a name that is already in the innermost resolver frame
\* (by `var`, by `fun`, or as a second parameter of the same name) yields
\* OvershadowingSameBlock and leaves every variable state as it was; a name
\* that is only in an enclosing frame is declared in the innermost frame,
\* the enclosing frames are untouched, and a use binds to the new one.
RedeclarationRefused ==
  /\ [](stage = "resolve" =>
          \A tok \in DeclaredTokens, assigned \in BOOLEAN :
            LET r == ResolverAfterLoop
                name == extract_identifier(tok)
                n == Len(r.scopes)
                d == declare_optional_assigned(r, tok, assigned)
            IN IF name \in DOMAIN r.scopes[n]
               THEN d = RErr(r, ResolveError("OvershadowingSameBlock", tok))
               ELSE /\ d.ok
                    /\ d.r.scopes[n][name] =
                         [token |-> tok, ever_assigned |-> assigned, ever_read |-> FALSE]
                    /\ \A m \in DOMAIN r.scopes[n] : d.r.scopes[n][m] = r.scopes[n][m]
                    /\ Front(d.r.scopes) = Front(r.scopes)
                    /\ bind_access(d.r, 99, tok).r.bindings[99] = 0)
  /\ [][(stage = "resolve" /\ stage' # "resolve") =>
          \A i \in DOMAIN stmts :
            (/\ stmts[i].k = "FunDecl"
             /\ Len(stmts[i].params) = 2
             /\ extract_identifier(stmts[i].params[1]) = extract_identifier(stmts[i].params[2]))
            => /\ ResolverFailed'
               /\ \/ ResolveError("OvershadowingSameBlock", stmts[i].params[2]) \in ResolveErrors'
                  \/ ResolveError("OvershadowingSameBlock", stmts[i].name) \in ResolveErrors']_vars
  /\ [][(stage = "resolve" /\ stage' # "resolve") =>
          \A j \in DOMAIN stmts :
            (/\ stmts[j].k \in {"VarDecl", "FunDecl"}
             /\ \A i \in 1..(j - 1) : stmts[i].k \in {"VarDecl", "ExprStmt", "PrintStmt"}
             /\ \E i \in 1..(j - 1) :
                  /\ PlainVarDecl(stmts[i])
                  /\ extract_identifier(stmts[i].variable) =
                       extract_identifier(IF stmts[j].k = "VarDecl" THEN stmts[j].variable
                                          ELSE stmts[j].name))
            => /\ ResolverFailed'
               /\ ResolveError("OvershadowingSameBlock",
                               IF stmts[j].k = "VarDecl" THEN stmts[j].variable
                               ELSE stmts[j].name) \in ResolveErrors']_vars
  /\ [][(stage = "resolve" /\ stage' # "resolve") =>
          \A j \in DOMAIN stmts :
            (/\ stmts[j].k = "Block" /\ stmts[j].stmts # <<>>
             /\ stmts[j].stmts[1].k = "VarDecl"
             /\ \A i \in 1..(j - 1) : stmts[i].k \in {"VarDecl", "ExprStmt", "PrintStmt"}
             /\ \E i \in 1..(j - 1) :
                  /\ PlainVarDecl(stmts[i])
                  /\ extract_identifier(stmts[i].variable) =
                       extract_identifier(stmts[j].stmts[1].variable))
            => (ResolverFailed' =>
                  ResolveError("OvershadowingSameBlock", stmts[j].stmts[1].variable)
                    \notin ResolveErrors')]_vars

\* `var a = 1; var a;` was refused: the second declaration overshadows and
\* the first variable, still assigned, is reported unused, not unassigned
RedeclarationRefusedWitness ==
  /\ ResolverFailed
  /\ Len(stmts) = 2
  /\ stmts[1].k = "VarDecl" /\ IsSome(stmts[1].expr)
  /\ stmts[2].k = "VarDecl" /\ ~IsSome(stmts[2].expr)
  /\ ResolveErrors = {ResolveError("OvershadowingSameBlock", stmts[2].variable),
                      ResolveError("UnusedVariable", stmts[1].variable)}


\* the token a top-level declaration declares
DeclaredToken(stmt) == IF stmt.k = "VarDecl" THEN stmt.variable ELSE stmt.name

\* the variable states the resolver holds for a declaration's token when
\* the loop of Resolver::resolve is done
StatesOf(r, token) ==
  UNION {{r.scopes[s][n] : n \in DOMAIN r.scopes[s]} : s \in DOMAIN r.scopes}
    \cap {[token |-> token, ever_assigned |-> x, ever_read |-> y] : x, y \in BOOLEAN}

\* C20: when Resolver::resolve finishes, every variable declared at top
\* level has an UnassignedVariable diagnostic if it was never assigned,
\* otherwise an UnusedVariable diagnostic if it was never read, never both,
\* and none if it was assigned and read; this holds of all such variables
\* and also when resolving some statement reported an error.
GlobalDiagnosticsComplete ==
  [][(stage = "resolve" /\ stage' # "resolve") =>
       \A i \in DOMAIN stmts :
         stmts[i].k \in {"VarDecl", "FunDecl"} =>
           \A vs \in StatesOf(ResolverAfterLoop, DeclaredToken(stmts[i])) :
             LET errs == IF stage' = "returned" THEN ResolveErrors' ELSE {}
             IN /\ ResolveError("UnassignedVariable", vs.token) \in errs
                     <=> ~vs.ever_assigned
                /\ ResolveError("UnusedVariable", vs.token) \in errs
                     <=> vs.ever_assigned /\ ~vs.ever_read]_vars


\* the frames of a scope stack that declare a name
DeclaringFrames(r, name) == {s \in DOMAIN r.scopes : name \in DOMAIN r.scopes[s]}

Max(S) == CHOOSE x \in S : \A y \in S : y <= x

\* C21: a read or an assignment of a name that no frame of the scope stack
\* declares yields UndeclaredVariable and records no depth; otherwise the
\* depth recorded is the number of frames between the current frame and the
\* innermost frame that declares the name (0 = the current frame), and only
\* that frame's variable gets its ever_read flag (for a read) or its
\* ever_assigned flag (for an assignment) set.
BindingDepth ==
  /\ [](stage = "resolve" =>
          \A tok \in DeclaredTokens, should_assign \in BOOLEAN :
            LET r == ResolverAfterLoop
                name == extract_identifier(tok)
                frames == DeclaringFrames(r, name)
                b == bind_assign_or_access(r, 99, tok, should_assign)
            IN IF frames = {}
               THEN b = RErr(r, ResolveError("UndeclaredVariable", tok))
               ELSE LET s == Max(frames)
                        old == r.scopes[s][name]
                    IN /\ b.ok
                       /\ b.r.bindings = MapInsert(r.bindings, 99, Len(r.scopes) - s)
                       /\ b.r.scopes[s][name] =
                            IF should_assign THEN [old EXCEPT !.ever_assigned = TRUE]
                            ELSE [old EXCEPT !.ever_read = TRUE]
                       /\ \A s2 \in DOMAIN r.scopes : \A n \in DOMAIN r.scopes[s2] :
                            (s2 # s \/ n # name) => b.r.scopes[s2][n] = r.scopes[s2][n]
                       /\ b.r.errors = r.errors)
  /\ [][(stage = "resolve" /\ stage' = "interpret") =>
          \A i \in DOMAIN stmts :
            /\ (stmts[i].k = "PrintStmt" /\ stmts[i].expr.k = "Variable")
                 => bindings'[stmts[i].expr.id] = 0
            /\ (stmts[i].k = "ExprStmt" /\ stmts[i].expr.k = "Assignment")
                 => bindings'[stmts[i].expr.id] = 0
            /\ (stmts[i].k = "Block"
                  /\ \A j \in DOMAIN stmts[i].stmts : stmts[i].stmts[j].k = "PrintStmt")
                 => \A j \in DOMAIN stmts[i].stmts :
                      bindings'[stmts[i].stmts[j].expr.id] = 1]_vars
  /\ [][(stage = "resolve" /\ stage' # "resolve") =>
          \A i \in DOMAIN stmts :
            (/\ stmts[i].k = "PrintStmt"
             /\ \A j \in 1..(i - 1) : stmts[j].k \in {"ExprStmt", "PrintStmt"})
            => /\ ResolverFailed'
               /\ ResolveError("UndeclaredVariable", stmts[i].expr.variable) \in ResolveErrors']_vars

\* `var a = 1; { print a; }` was resolved: the use of a is bound one frame out
BindingDepthWitness ==
  /\ stage = "interpret"
  /\ Len(stmts) = 2
  /\ stmts[1].k = "VarDecl"
  /\ stmts[2].k = "Block" /\ Len(stmts[2].stmts) = 1
  /\ stmts[2].stmts[1].k = "PrintStmt"
  /\ bindings[stmts[2].stmts[1].expr.id] = 1


\* the resolver when the loop of Resolver::resolve has resolved the first n
\* statements
ResolverAfter(n) ==
  resolve_loop(resolver_begin_scope(Resolver_new(identifier_names(tokens, <<>>))),
               SubSeq(stmts, 1, n))

\* C30: the resolver's scope stack is balanced: after resolve_stmt returns
\* for any statement, with Ok or with Err, the stack has the height it had
\* before the call, so that the frame popped at the end of resolve is the
\* global frame.
ScopeStackBalanced ==
  [][(stage = "resolve" /\ stage' # "resolve") =>
       \A i \in DOMAIN stmts :
         /\ Len(resolve_stmt(ResolverAfter(i - 1), stmts[i]).r.scopes)
              = Len(ResolverAfter(i - 1).scopes)
         /\ Len(ResolverAfter(i).scopes) = 2]_vars


(***************************************************************************)
(* C22  A call restores the environment.  Whichever way LoxFunction::call  *)
(* returns (the body completed, it returned a value, or a runtime error    *)
(* is being returned), the current environment after it is the one that    *)
(* was current before the call.                                            *)
(***************************************************************************)
\* LoxFunction::call returns: its activation is the top one and is left
CallReturns ==
  /\ stage = "interpret"
  /\ kont # <<>>
  /\ Top.f = "call"
  /\ kont' = Front(kont)

CallRestoresEnvironment ==
  [][CallReturns => environment' = Top.old]_vars

(***************************************************************************)
(* C23  Block scopes are paired.  Whichever way eval_block returns (its    *)
(* statements completed, one of them returned a signal, or a runtime       *)
(* error is being returned), the frame it pushed has been popped once, so  *)
(* the current environment is the one of its entry: its chain is the       *)
(* captured chain of the running function (the global frame outside any    *)
(* function) extended by one frame per block still running; and end_scope  *)
(* is never applied to the global frame.                                   *)
(***************************************************************************)
\* eval_block returns: its activation is the top one and is left
BlockReturns ==
  /\ stage = "interpret"
  /\ kont # <<>>
  /\ Top.f = "eval_block"
  /\ kont' = Front(kont)

BlockScopesPaired ==
  /\ [][BlockReturns => ChainLength(envs', environment') = ExpectedChainLength']_vars
  /\ [](ctl.m = "panic" => ctl.msg # "expected enclosing to exist")


(***************************************************************************)
(* C24  Order of the checks of a call.  eval_fun_call evaluates the callee *)
(* first.  A callee value that is not a callable gives ExpectedCallable at *)
(* the call's closing parenthesis; a callable whose arity differs from the *)
(* number of arguments gives CallableBadArgsCount at that token before any *)
(* argument expression is evaluated.  Otherwise the argument expressions   *)
(* are evaluated from left to right, each exactly once, and the body       *)
(* starts only when all of them have a value.  So call_order prints 3, 1,  *)
(* 2 and args_unevaluated prints nothing.                                  *)
(***************************************************************************)
\* the activations of eval_fun_call on the stack
FunCallFrames(stack) == {i \in DOMAIN stack : stack[i].f = "eval_fun_call"}

CallCheckOrder ==
  /\ []((source = call_order /\ Returned) => (result.ok /\ out = <<"3", "1", "2">>))
  /\ []((source = args_unevaluated /\ Returned)
          => /\ ~result.ok
             /\ out = <<>>
             /\ result.errors[1].err.k = "CallableBadArgsCount")
  /\ []((source = not_callable /\ Returned)
          => /\ ~result.ok
             /\ result.errors[1].err.k = "ExpectedCallable"
             /\ result.errors[1].err.token.kind.k = "RightParen")
     \* an argument is under evaluation only for a callable of matching arity,
     \* and the arguments before it, and no others, have their values
  /\ [](stage = "interpret"
          => \A i \in FunCallFrames(kont) :
               /\ kont[i].at = "callee" => kont[i].args = <<>>
               /\ kont[i].at \in {"args", "call"}
                    => Len(functions[kont[i].callable].params) = Len(kont[i].arg_exprs)
               /\ kont[i].at = "args" => Len(kont[i].args) < Len(kont[i].arg_exprs)
               /\ kont[i].at = "call" => Len(kont[i].args) = Len(kont[i].arg_exprs))
  /\ [][/\ (ctl.m = "expr" /\ ctl.node.k = "FunCall" /\ Stepped)
             => /\ ctl' = EvalExpr(ctl.node.callee)
                /\ Len(kont') = Len(kont) + 1
                /\ kont'[Len(kont')].at = "callee"
                /\ kont'[Len(kont')].paren.kind.k = "RightParen"
        /\ (/\ ctl.m = "value" /\ Top.f = "eval_fun_call" /\ Top.at = "callee"
            /\ Stepped)
             => IF ctl.v.t # "Callable"
                THEN /\ ctl' = ErrRuntime(ExpectedCallable(Top.paren))
                     /\ kont' = Front(kont)
                ELSE IF Len(functions[ctl.v.fn].params) # Len(Top.arg_exprs)
                THEN /\ ctl' = ErrRuntime(CallableBadArgsCount(Top.paren))
                     /\ kont' = Front(kont)
                ELSE /\ ctl'.m \in {"expr", "call"}
                     /\ ctl'.m = "expr" => ctl' = EvalExpr(Top.arg_exprs[1])
        /\ (/\ ctl.m = "value" /\ Top.f = "eval_fun_call" /\ Top.at = "args"
            /\ Stepped)
             => /\ kont'[Len(kont')].args = Append(Top.args, ctl.v)
                /\ IF Len(Top.args) + 1 < Len(Top.arg_exprs)
                   THEN ctl' = EvalExpr(Top.arg_exprs[Len(Top.args) + 2])
                   ELSE ctl'.m = "call"
        /\ (ctl'.m = "call" /\ Stepped)
             => /\ kont'[Len(kont')].f = "eval_fun_call"
                /\ ctl'.fn = kont'[Len(kont')].callable
                /\ ctl'.args = kont'[Len(kont')].args
                /\ Len(ctl'.args) = Len(kont'[Len(kont')].arg_exprs)
       ]_vars

\* call_order has printed both arguments, the left one first, and the body of
\* f starts with their values
CallCheckOrderWitness ==
  /\ source = call_order
  /\ out = <<"3", "1">>
  /\ ctl.m = "call"
  /\ ctl.args = <<Number(Rat(3, 1)), Number(Rat(1, 1))>>
  /\ Top.f = "eval_fun_call" /\ Top.at = "call"


(***************************************************************************)
(* C25  Panic-mode synchronization.  When the declaration at the cursor    *)
(* fails, the iteration of parse appends exactly that one error, pushes no *)
(* statement and keeps the statements parsed so far; the cursor moves from *)
(* the token of the failure to the first token at or after it that is      *)
(* class, fun, var, for, if, while, print, return or Eof, over semicolons  *)
(* as over any other token, and the next declaration starts there.  When   *)
(* the declaration succeeds its statement is appended and no error is.     *)
(***************************************************************************)
DeclarationStarts ==
  {"Class", "Fun", "Var", "For", "If", "While", "Print", "Return", "Eof"}

\* the result of the declaration the iteration parses
DeclarationResult == rule("declaration", parser)

PanicModeSynchronization ==
  [][ParseIteration =>
       IF DeclarationResult.ok
       THEN /\ stmts' = Append(stmts, DeclarationResult.v)
            /\ parser'.errors = parser.errors
       ELSE /\ parser'.errors = Append(parser.errors, DeclarationResult.err)
            /\ stmts' = stmts
            /\ parser'.pos >= DeclarationResult.p.pos
            /\ peek_kind(parser') \in DeclarationStarts
            /\ \A i \in (DeclarationResult.p.pos + 1)..parser'.pos :
                 tokens[i].kind.k \notin DeclarationStarts
            /\ parser'.tokens = parser.tokens]_vars

\* `1; ; var`: the statement `1;` is kept, the lone semicolon was refused as
\* an expression, and the cursor has passed it and stands at var
PanicModeSynchronizationWitness ==
  /\ stage = "parse"
  /\ Len(tokens) = 5
  /\ [i \in 1..5 |-> tokens[i].kind.k]
       = <<"Number", "Semicolon", "Semicolon", "Var", "Eof">>
  /\ Len(stmts) = 1
  /\ Len(parser.errors) = 1
  /\ parser.errors[1].kind = ExpectedExpression
  /\ parser.pos = 3


(***************************************************************************)
(* C26  For-loop desugaring.  A `for` statement that parses gives a Block  *)
(* whose statements are the initializer, when there is one, followed by a  *)
(* While.  The While's condition is the given condition, or the literal    *)
(* true when it is omitted; its body is Block[body, ExprStmt(increment)]   *)
(* when an increment is given, and the body itself otherwise.  This holds  *)
(* for all eight combinations of given and omitted clauses.                *)
(***************************************************************************)
\* a `for` statement is at the cursor and the iteration parses it
ForParsed ==
  /\ ParseIteration
  /\ peek_kind(parser) = "For"
  /\ DeclarationResult.ok

\* the index of the first token of the kind at or after token i
FirstToken(kind, i) ==
  CHOOSE j \in i..Len(tokens) :
    /\ tokens[j].kind.k = kind
    /\ \A m \in i..(j - 1) : tokens[m].kind.k # kind

\* where the clauses of the `for` at the cursor start, and which are given
InitializerStart == parser.pos + 3
ConditionStart == FirstToken("Semicolon", InitializerStart) + 1
IncrementStart == FirstToken("Semicolon", ConditionStart) + 1
BodyStart == FirstToken("RightParen", IncrementStart) + 1
InitializerGiven == tokens[InitializerStart].kind.k # "Semicolon"
ConditionGiven == tokens[ConditionStart].kind.k # "Semicolon"
IncrementGiven == tokens[IncrementStart].kind.k # "RightParen"

\* the kind of the statement that starts with the token
StatementKind(token) ==
  CASE token.kind.k = "Var" -> "VarDecl"
    [] token.kind.k = "Print" -> "PrintStmt"
    [] token.kind.k = "LeftBrace" -> "Block"
    [] OTHER -> "ExprStmt"

\* w is the While of the `for` at the cursor
IsForWhile(w) ==
  /\ w.k = "While"
  /\ IF ConditionGiven
     THEN w.condition.k = "Variable" /\ w.condition.variable = tokens[ConditionStart]
     ELSE w.condition = Literal(Bool(TRUE))
  /\ IF IncrementGiven
     THEN /\ w.body.k = "Block"
          /\ Len(w.body.stmts) = 2
          /\ w.body.stmts[1].k = StatementKind(tokens[BodyStart])
          /\ w.body.stmts[2].k = "ExprStmt"
          /\ w.body.stmts[2].expr.k = "Assignment"
          /\ w.body.stmts[2].expr.variable = tokens[IncrementStart]
     ELSE /\ w.body.k = StatementKind(tokens[BodyStart])
          /\ w.body.k = "Block" => w.body.stmts = <<>>

\* s is the initializer of the `for` at the cursor
IsForInitializer(s) ==
  /\ s.k = StatementKind(tokens[InitializerStart])
  /\ s.k = "VarDecl" => s.variable = tokens[InitializerStart + 1]
  /\ s.k = "ExprStmt" => s.expr.variable = tokens[InitializerStart]

ForDesugarsToBlock ==
  [][ForParsed =>
       /\ Last(stmts').k = "Block"
       /\ Len(Last(stmts').stmts) = IF InitializerGiven THEN 2 ELSE 1
       /\ InitializerGiven => IsForInitializer(Last(stmts').stmts[1])
       /\ IsForWhile(Last(Last(stmts').stmts))]_vars

\* C26, amended: with an initializer the `for` gives Block[initializer,
\* While]; without one it gives the While itself, in no Block.  The While
\* is as the claim says.
ForDesugaring ==
  [][ForParsed =>
       IF InitializerGiven
       THEN /\ Last(stmts').k = "Block"
            /\ Len(Last(stmts').stmts) = 2
            /\ IsForInitializer(Last(stmts').stmts[1])
            /\ IsForWhile(Last(stmts').stmts[2])
       ELSE IsForWhile(Last(stmts'))]_vars

\* `for (var a; a; a = 1) print a;` has been parsed
ForDesugaringWitness ==
  /\ stage = "parse"
  /\ Len(tokens) = 15
  /\ tokens[1].kind.k = "For"
  /\ tokens[3].kind.k = "Var"
  /\ Len(stmts) = 1
  /\ stmts[1].k = "Block"
  /\ stmts[1].stmts[1].k = "VarDecl"
  /\ stmts[1].stmts[2].k = "While"
  /\ stmts[1].stmts[2].condition.k = "Variable"
  /\ stmts[1].stmts[2].body.stmts[1].k = "PrintStmt"
  /\ stmts[1].stmts[2].body.stmts[2].expr.k = "Assignment"
  /\ is_at_end(parser)


(***************************************************************************)
(* C27  The initializer is resolved before the variable is declared.  In   *)
(* `var x = x;`, x not yet being in the current frame, the x of the        *)
(* initializer is UndeclaredVariable when no frame declares x, and is      *)
(* otherwise bound to the innermost enclosing frame that declares x, at a  *)
(* depth of at least 1, and marks that frame's variable as read; the       *)
(* variable the statement declares comes out assigned and not read.  So    *)
(* `var a = a;` at the top of a program is refused, and in                 *)
(* `var a = 1; { var a = a; }` the inner a is the only unused variable.    *)
(***************************************************************************)
\* a `var` statement whose initializer is the variable of the same name
SelfInitialized(stmt) ==
  /\ stmt.k = "VarDecl"
  /\ IsSome(stmt.expr)
  /\ Unwrap(stmt.expr).k = "Variable"
  /\ extract_identifier(Unwrap(stmt.expr).variable) = extract_identifier(stmt.variable)

Before(t1, t2) == t1.line < t2.line \/ (t1.line = t2.line /\ t1.col < t2.col)

\* the error is a frame-close error of a variable a top-level statement declares
GlobalCloseError(err) ==
  /\ err.k \in {"UnusedVariable", "UnassignedVariable"}
  /\ \E i \in DOMAIN stmts :
       stmts[i].k \in {"VarDecl", "FunDecl"} /\ DeclaredToken(stmts[i]) = err.token

\* the kinds and the names of the errors of the result
ReportedErrors ==
  [i \in DOMAIN result.errors |->
     <<result.errors[i].err.k, extract_identifier(result.errors[i].err.token)>>]

DiagnosticsInEncounterOrder ==
  /\ [](ResolverFailed =>
          \A i, j \in DOMAIN result.errors :
            (/\ i < j
             /\ GlobalCloseError(result.errors[i].err)
             /\ GlobalCloseError(result.errors[j].err))
            => Before(result.errors[i].err.token, result.errors[j].err.token))
  /\ []((source = errors_in_order /\ Returned)
          => ReportedErrors = <<<<"UndeclaredVariable", "c">>, <<"UnusedVariable", "a">>,
                                <<"UnusedVariable", "b">>>>)
  /\ []((source = two_unused /\ Returned)
          => ReportedErrors = <<<<"UnusedVariable", "a">>>>)


(***************************************************************************)
(* C29  No reference cycle among frames and values.  The enclosing link of *)
(* a frame is set when the frame is created and never changes, and no      *)
(* frame reaches itself by enclosing links and by the captured             *)
(* environments of the callables its variables, and those of the frames    *)
(* reached, hold.                                                          *)
(***************************************************************************)
\* the frames a frame holds a reference to: its enclosing frame and the
\* environments captured by the callables among its variables' values
FrameReferences(e) ==
  (IF envs[e].enclosing = 0 THEN {} ELSE {envs[e].enclosing})
    \cup {functions[envs[e].variables[n].fn].environment :
            n \in {m \in DOMAIN envs[e].variables : envs[e].variables[m].t = "Callable"}}

\* the frames reached from the frames of S by following references
RECURSIVE ReachableFrames(_)
ReachableFrames(S) ==
  LET more == S \cup UNION {FrameReferences(e) : e \in S}
  IN IF more = S THEN S ELSE ReachableFrames(more)

NoReferenceCycle ==
  /\ [][stage = "interpret" =>
          \A e \in DOMAIN envs :
            /\ e \in DOMAIN envs'
            /\ envs'[e].enclosing = envs[e].enclosing]_vars
  /\ [](\A e \in DOMAIN envs : e \notin ReachableFrames(FrameReferences(e)))

====
